---- MODULE Spec2Model ----
(***************************************************************************)
(* Plugin state runtime of animachat: PluginStateManager (state.ts, the    *)
(* file-backed, cached store with global, channel and epic scope) and      *)
(* PluginContextFactory (context-factory.ts, the per-activation binder).   *)
(***************************************************************************)
EXTENDS Integers, Sequences, FiniteSets, TLC

-----------------------------------------------------------------------------
(* Bounds *)

\* number of distinct message ids
MaxMsg == 3
\* number of heap cells for blob objects
MaxRefs == 5
\* objects are {counter: n} and numbers are n, for n in 0..MaxCounter
MaxCounter == 1
\* largest epic delta
MaxDelta == 1
\* number of distinct message ids of the epic events of a channel and its thread
MaxEpicMsg == 2
\* target depths of an injection range over 0..MaxDepth
MaxDepth == 2
\* longest message id list of a factory
MaxLen == 3

-----------------------------------------------------------------------------
(* Domains *)

FactorySeq == <<"f1", "f2">>
PluginSeq == <<"config", "notes">>
ChannelSeq == <<"origin", "parent", "thread">>

Factories == {FactorySeq[i] : i \in 1..Len(FactorySeq)}
Plugins == {PluginSeq[i] : i \in 1..Len(PluginSeq)}
Channels == {ChannelSeq[i] : i \in 1..Len(ChannelSeq)}
Scopes == {"global", "channel", "epic"}

\* an absent optional string (undefined); like the empty string it is falsy
Undefined == ""

None == <<>>
Some(x) == <<x>>

RECURSIVE Digits(_)
\* decimal rendering of a positive number, as its sequence of digits
Digits(n) == IF n < 10 THEN <<n>> ELSE Append(Digits(n \div 10), n % 10)

\* message ids are decimal strings; "8", "9", "10", ... so that both widths occur
MsgIds == {Digits(n) : n \in (11 - MaxMsg)..10}
\* null (a falsy id)
NullId == <<>>

\* new Date().toISOString(): the program stores an event's timestamp and never
\* reads it, so one reading of the clock stands for all of them
Now == 0

RECURSIVE LocaleCompare(_, _)
\* String.prototype.localeCompare on digit strings: negative, zero or positive
LocaleCompare(a, b) ==
  IF a = <<>> THEN (IF b = <<>> THEN 0 ELSE 0 - 1)
  ELSE IF b = <<>> THEN 1
  ELSE IF Head(a) < Head(b) THEN 0 - 1
  ELSE IF Head(a) > Head(b) THEN 1
  ELSE LocaleCompare(Tail(a), Tail(b))

Depths == 0..MaxDepth
Refs == 1..MaxRefs
Counters == 0..MaxCounter
Deltas == 0..MaxDelta

\* run-time values: null, a number, or a reference to a heap object
JNull == <<"null", 0>>
JNum(n) == <<"num", n>>
Ref(r) == <<"ref", r>>
\* serialised values: null, a number, or the object {counter: n}
JObj(n) == <<"obj", n>>

IsRef(v) == v[1] = "ref"

\* a boolean (b is 1 for true and 0 for false), and a string of n characters
JBool(b) == <<"bool", b>>
JString(n) == <<"str", n>>

\* JavaScript truthiness of a run-time value: null, 0, false and "" are falsy
Truthy(v) == IsRef(v) \/ (v[1] \in {"num", "bool", "str"} /\ v[2] # 0)

\* JSON.stringify of a run-time value, given the heap
Stringify(h, v) == IF IsRef(v) THEN JObj(h[v[2]]) ELSE v

EmptyMetadata ==
  [lastModifiedMessageId |-> NullId, parentChannelId |-> Undefined,
   historyOriginChannelId |-> Undefined]

NoInheritance == [parentChannelId |-> Undefined, historyOriginChannelId |-> Undefined]

-----------------------------------------------------------------------------
(* State *)

VARIABLES
  globalFile,        \* [Plugins -> None or Some(serialised blob)]
  channelFile,       \* [Plugins -> [Channels -> None or Some([state, metadata])]]
  epicFile,          \* [Plugins -> [Channels -> None or Some(event list)]]
  stateManagers,     \* [Factories -> SUBSET Plugins], the managers a factory made
  globalCache,       \* [Factories -> [Plugins -> value]], null when not cached
  channelCache,      \* [Factories -> [Plugins -> [Channels -> None or Some([state, metadata])]]]
  epicEventsCache,   \* [Factories -> [Plugins -> [Channels -> None or Some(event list)]]]
  messageIds,        \* [Factories -> Seq(MsgIds)]
  messageIdSet,      \* [Factories -> SUBSET MsgIds]
  messagePositions,  \* [Factories -> [MsgIds -> position or -1]]
  heap,              \* [Refs -> Counters], the objects blobs refer to
  ctx,               \* None or Some(the plugin context of the running activation)
  calls,             \* [Factories -> None or Some(a setChannelState call under way)]
  tree,              \* the files under cacheDir by path and the caches of the managers by
                     \* identifier, for identifiers as the callers pass them
  placement,         \* the build of injections: transcript, submissions, output
  dispatch,          \* the tool call being dispatched
  records,           \* the recordEpicEvent calls of one manager that are under way
  logging,           \* activationLoggers, the log streams and the calls that opened them
  last               \* the last completed operation, its arguments and result

diskVars == <<globalFile, channelFile, epicFile>>
cacheVars == <<stateManagers, globalCache, channelCache, epicEventsCache>>
factoryVars == <<messageIds, messageIdSet, messagePositions>>
vars == <<globalFile, channelFile, epicFile, stateManagers, globalCache,
          channelCache, epicEventsCache, messageIds, messageIdSet,
          messagePositions, heap, ctx, calls, tree, placement, dispatch,
          records, logging, last>>

\* the record kept in last; fields an operation does not use keep these values
NoOp ==
  [op |-> "init", f |-> "", p |-> "", channelId |-> "", scope |-> "",
   val |-> JNull, snap |-> JNull, metadata |-> EmptyMetadata,
   inh |-> NoInheritance, messageId |-> NullId, live |-> None,
   other |-> "", before |-> "", estate |-> None, num |-> JNull, len |-> 0,
   written |-> None, ids |-> <<>>, pid |-> <<>>, cid |-> <<>>, touched |-> {},
   outcome |-> "", err |-> "", lookups |-> <<>>]

\* the value the plugin code still holds from its last call
Held == last.val

-----------------------------------------------------------------------------
(* The store as a value: operations map a memory to a memory and a result *)

Mem ==
  [gf |-> globalFile, cf |-> channelFile, ef |-> epicFile, gc |-> globalCache,
   cc |-> channelCache, ec |-> epicEventsCache, heap |-> heap, held |-> Held,
   ok |-> TRUE]

\* the references a set of values holds
RefsIn(vals) == {v[2] : v \in {w \in vals : IsRef(w)}}

\* the heap cells that a cache or the plugin code (m.held) can still reach
UsedRefs(m) ==
  RefsIn({m.held}
         \cup {m.gc[f][p] : f \in Factories, p \in Plugins}
         \cup {m.cc[x[1]][x[2]][x[3]][1].state :
                 x \in {y \in Factories \X Plugins \X Channels :
                          m.cc[y[1]][y[2]][y[3]] # None}})

\* a new object {counter: n}; the operation fails its bound when no cell is free
NewObject(m, n) ==
  LET free == Refs \ UsedRefs(m) IN
  IF free = {} THEN [m |-> [m EXCEPT !.ok = FALSE], val |-> JNull]
  ELSE LET r == CHOOSE x \in free : \A y \in free : x <= y
       IN [m |-> [m EXCEPT !.heap[r] = n], val |-> Ref(r)]

\* JSON.parse of a serialised blob: an object is a new object on the heap
Parse(m, json) ==
  IF json[1] = "obj" THEN NewObject(m, json[2])
  ELSE [m |-> m, val |-> json]

\* every place that can hold a reference, in a fixed order: the plugin's
\* variable, the global caches, the channel caches
Slots(m) ==
  <<m.held>>
  \o [i \in 1..(Len(FactorySeq) * Len(PluginSeq)) |->
       m.gc[FactorySeq[((i - 1) \div Len(PluginSeq)) + 1]]
           [PluginSeq[((i - 1) % Len(PluginSeq)) + 1]]]
  \o [i \in 1..(Len(FactorySeq) * Len(PluginSeq) * Len(ChannelSeq)) |->
       LET e == m.cc[FactorySeq[((i - 1) \div (Len(PluginSeq) * Len(ChannelSeq))) + 1]]
                    [PluginSeq[(((i - 1) \div Len(ChannelSeq)) % Len(PluginSeq)) + 1]]
                    [ChannelSeq[((i - 1) % Len(ChannelSeq)) + 1]]
       IN IF e = None THEN JNull ELSE e[1].state]

RECURSIVE RefOrder(_, _)
\* the references of a list of values, each once, in the order they first occur
RefOrder(vals, seen) ==
  IF vals = <<>> THEN seen
  ELSE IF IsRef(Head(vals)) /\ \A i \in 1..Len(seen) : seen[i] # Head(vals)[2]
    THEN RefOrder(Tail(vals), Append(seen, Head(vals)[2]))
    ELSE RefOrder(Tail(vals), seen)

\* unreachable cells are collected, and the reachable ones are numbered in the
\* order of Slots: which cell an object lives in is not observable
Collect(m) ==
  LET order == RefOrder(Slots(m), <<>>)
      NewName(r) == CHOOSE i \in 1..Len(order) : order[i] = r
      Rename(v) == IF IsRef(v) THEN Ref(NewName(v[2])) ELSE v
      RenameEntry(e) == IF e = None THEN None ELSE Some([e[1] EXCEPT !.state = Rename(@)])
  IN [m EXCEPT
        !.held = Rename(m.held),
        !.gc = [f \in Factories |-> [p \in Plugins |-> Rename(m.gc[f][p])]],
        !.cc = [f \in Factories |-> [p \in Plugins |-> [c \in Channels |->
                  RenameEntry(m.cc[f][p][c])]]],
        !.heap = [r \in Refs |-> IF r <= Len(order) THEN m.heap[order[r]] ELSE 0]]

getGlobalState(m, f, p) ==
  IF m.gc[f][p] # JNull THEN [m |-> m, ret |-> m.gc[f][p]]
  ELSE IF m.gf[p] = None THEN [m |-> m, ret |-> JNull]
  ELSE LET pr == Parse(m, m.gf[p][1])
       IN [m |-> [pr.m EXCEPT !.gc[f][p] = pr.val], ret |-> pr.val]

setGlobalState(m, f, p, state) ==
  [m EXCEPT !.gf[p] = Some(Stringify(m.heap, state)),
            !.gc[f][p] = state]

\* getChannelState(channelId) without inheritance info: cache, then file, then null
getOwnChannelState(m, f, p, channelId) ==
  IF m.cc[f][p][channelId] # None
    THEN [m |-> m, ret |-> m.cc[f][p][channelId][1]]
  ELSE IF m.cf[p][channelId] # None
    THEN LET parsed == m.cf[p][channelId][1]
             pr == Parse(m, parsed.state)
             result == [state |-> pr.val, metadata |-> parsed.metadata]
         IN [m |-> [pr.m EXCEPT !.cc[f][p][channelId] = Some(result)],
             ret |-> result]
  ELSE [m |-> m, ret |-> [state |-> JNull, metadata |-> EmptyMetadata]]

\* the channel counts as having state only while its entry is cached
HasOwnStateCachedOnly(m, f, p, channelId) == m.cc[f][p][channelId] # None

\* the channel's cache entry or file exists: getChannelState answers from it
HasOwnState(m, f, p, channelId) ==
  m.cc[f][p][channelId] # None \/ m.cf[p][channelId] # None

\* getChannelState that goes on to the other channels when the named ones
\* give no state
getChannelStateFollowsAncestors(m, f, p, channelId, inheritFrom) ==
  LET named == {channelId, inheritFrom.historyOriginChannelId, inheritFrom.parentChannelId}
      further == {c \in Channels \ named :
                    Truthy(getOwnChannelState(m, f, p, c).ret.state)}
      own == getOwnChannelState(m, f, p, channelId)
  IN IF HasOwnState(m, f, p, channelId) \/ further = {} THEN own
     ELSE LET c == CHOOSE c \in further : TRUE
              a == getOwnChannelState(m, f, p, c)
          IN [m |-> a.m,
              ret |-> [state |-> a.ret.state,
                       metadata |-> [a.ret.metadata EXCEPT !.parentChannelId = c]]]

getChannelState(m, f, p, channelId, inheritFrom) ==
  IF HasOwnState(m, f, p, channelId) THEN getOwnChannelState(m, f, p, channelId)
  ELSE
    LET o == IF inheritFrom.historyOriginChannelId # Undefined
               THEN getOwnChannelState(m, f, p, inheritFrom.historyOriginChannelId)
               ELSE [m |-> m, ret |-> [state |-> JNull, metadata |-> EmptyMetadata]]
    IN IF inheritFrom.historyOriginChannelId # Undefined /\ Truthy(o.ret.state)
         THEN [m |-> o.m,
               ret |-> [state |-> o.ret.state,
                        metadata |-> [o.ret.metadata EXCEPT !.historyOriginChannelId =
                                        inheritFrom.historyOriginChannelId]]]
       ELSE
         LET q == IF inheritFrom.parentChannelId # Undefined
                    THEN getOwnChannelState(o.m, f, p, inheritFrom.parentChannelId)
                    ELSE [m |-> o.m, ret |-> [state |-> JNull, metadata |-> EmptyMetadata]]
         IN IF inheritFrom.parentChannelId # Undefined /\ Truthy(q.ret.state)
              THEN [m |-> q.m,
                    ret |-> [state |-> q.ret.state,
                             metadata |-> [q.ret.metadata EXCEPT !.parentChannelId =
                                             inheritFrom.parentChannelId]]]
            ELSE [m |-> q.m, ret |-> [state |-> JNull, metadata |-> EmptyMetadata]]

\* the channels whose cache entry and file one call of getChannelState
\* examines, in the order of the calls: the channel itself, then the inner
\* calls, which are given no inheritance info
channelStateLookups(m, f, p, channelId, inheritFrom) ==
  IF HasOwnState(m, f, p, channelId) THEN <<channelId>>
  ELSE
    LET originId == inheritFrom.historyOriginChannelId
        parentId == inheritFrom.parentChannelId
        o == getOwnChannelState(m, f, p, originId)
    IN <<channelId>>
       \o (IF originId # Undefined THEN <<originId>> ELSE <<>>)
       \o (IF originId # Undefined /\ Truthy(o.ret.state) THEN <<>>
           ELSE IF parentId # Undefined THEN <<parentId>> ELSE <<>>)

\* setChannelState that writes the file and leaves the cache entry as it was
setChannelStateStaleCache(m, f, p, channelId, state, messageId) ==
  LET existing == getOwnChannelState(m, f, p, channelId)
      metadata == [existing.ret.metadata EXCEPT !.lastModifiedMessageId =
                     IF messageId # NullId THEN messageId
                     ELSE existing.ret.metadata.lastModifiedMessageId]
      m1 == existing.m
  IN [m1 EXCEPT !.cf[p][channelId] =
                   Some([state |-> Stringify(m1.heap, state), metadata |-> metadata])]

\* setChannelState that drops the whole channel cache after writing the file
setChannelStateClearsCache(m, f, p, channelId, state, messageId) ==
  LET existing == getOwnChannelState(m, f, p, channelId)
      metadata == [existing.ret.metadata EXCEPT !.lastModifiedMessageId =
                     IF messageId # NullId THEN messageId
                     ELSE existing.ret.metadata.lastModifiedMessageId]
      m1 == existing.m
  IN [m1 EXCEPT !.cf[p][channelId] =
                   Some([state |-> Stringify(m1.heap, state), metadata |-> metadata]),
                !.cc[f][p] = [c \in Channels |-> None]]

\* setChannelState that keeps the message id the channel already has stored
setChannelStateKeepsStamp(m, f, p, channelId, state, messageId) ==
  LET existing == getOwnChannelState(m, f, p, channelId)
      metadata == [existing.ret.metadata EXCEPT !.lastModifiedMessageId =
                     IF existing.ret.metadata.lastModifiedMessageId # NullId
                       THEN existing.ret.metadata.lastModifiedMessageId
                       ELSE messageId]
      m1 == existing.m
  IN [m1 EXCEPT !.cf[p][channelId] =
                   Some([state |-> Stringify(m1.heap, state), metadata |-> metadata]),
                !.cc[f][p][channelId] = Some([state |-> state, metadata |-> metadata])]

setChannelState(m, f, p, channelId, state, messageId) ==
  LET existing == getOwnChannelState(m, f, p, channelId)
      metadata == [existing.ret.metadata EXCEPT !.lastModifiedMessageId =
                     IF messageId # NullId THEN messageId
                     ELSE existing.ret.metadata.lastModifiedMessageId]
      m1 == existing.m
  IN [m1 EXCEPT !.cf[p][channelId] =
                   Some([state |-> Stringify(m1.heap, state), metadata |-> metadata]),
                !.cc[f][p][channelId] = Some([state |-> state, metadata |-> metadata])]

-----------------------------------------------------------------------------
(* Epic scope: the event log of a channel *)

getEpicEvents(m, f, p, channelId) ==
  IF m.ec[f][p][channelId] # None THEN [m |-> m, ret |-> m.ec[f][p][channelId][1]]
  ELSE IF m.ef[p][channelId] # None
    THEN LET events == m.ef[p][channelId][1]
         IN [m |-> [m EXCEPT !.ec[f][p][channelId] = Some(events)], ret |-> events]
  ELSE [m |-> m, ret |-> <<>>]

saveEpicEvents(m, f, p, channelId, events) ==
  [m EXCEPT !.ef[p][channelId] = Some(events), !.ec[f][p][channelId] = Some(events)]

RECURSIVE InsertSorted(_, _)
\* e goes after the last element that does not compare greater (the sort is stable)
InsertSorted(sorted, e) ==
  IF sorted = <<>> THEN <<e>>
  ELSE IF LocaleCompare(Head(sorted).messageId, e.messageId) <= 0
    THEN <<Head(sorted)>> \o InsertSorted(Tail(sorted), e)
    ELSE <<e>> \o sorted

\* a sort that is left out: the events stay in arrival order
SortLeftOut(events) == events

RECURSIVE SortByMessageId(_)
\* events.sort((a, b) => a.messageId.localeCompare(b.messageId))
SortByMessageId(events) ==
  IF events = <<>> THEN <<>>
  ELSE InsertSorted(SortByMessageId(SubSeq(events, 1, Len(events) - 1)),
                    events[Len(events)])

\* recordEpicEvent that does not remove the message's earlier event
recordEpicEventNoFilter(m, f, p, channelId, messageId, timestamp, delta) ==
  LET got == getEpicEvents(m, f, p, channelId)
      pushed == Append(got.ret, [messageId |-> messageId, timestamp |-> timestamp,
                                 delta |-> delta])
  IN saveEpicEvents(got.m, f, p, channelId, SortByMessageId(pushed))

recordEpicEvent(m, f, p, channelId, messageId, timestamp, delta) ==
  LET got == getEpicEvents(m, f, p, channelId)
      Keep(e) == e.messageId # messageId
      filtered == SelectSeq(got.ret, Keep)
      pushed == Append(filtered, [messageId |-> messageId, timestamp |-> timestamp,
                                  delta |-> delta])
  IN saveEpicEvents(got.m, f, p, channelId, SortByMessageId(pushed))

\* the reducer of the plugin: the state is the list of the deltas applied, in
\* order, so that any other reducer's result is a function of this one's
Reducer(state, delta) ==
  IF state = None THEN Some(<<delta>>) ELSE Some(Append(state[1], delta))

RECURSIVE ReplayLoopExclusive(_, _, _, _)
\* the loop stopping at the bound itself (>= 0 in place of > 0)
ReplayLoopExclusive(events, upToMessageId, liveIds, state) ==
  IF events = <<>> THEN state
  ELSE LET event == Head(events) IN
       IF upToMessageId # NullId /\ LocaleCompare(event.messageId, upToMessageId) >= 0
         THEN state
       ELSE IF liveIds # None /\ event.messageId \notin liveIds[1]
         THEN ReplayLoopExclusive(Tail(events), upToMessageId, liveIds, state)
       ELSE ReplayLoopExclusive(Tail(events), upToMessageId, liveIds,
                                Reducer(state, event.delta))

RECURSIVE ReplayLoop(_, _, _, _)
\* the for loop of getEpicState over the events that remain
ReplayLoop(events, upToMessageId, liveIds, state) ==
  IF events = <<>> THEN state
  ELSE LET event == Head(events) IN
       IF upToMessageId # NullId /\ LocaleCompare(event.messageId, upToMessageId) > 0
         THEN state
       ELSE IF liveIds # None /\ event.messageId \notin liveIds[1]
         THEN ReplayLoop(Tail(events), upToMessageId, liveIds, state)
       ELSE ReplayLoop(Tail(events), upToMessageId, liveIds, Reducer(state, event.delta))

\* getEpicState that keeps in the cache only the events it has replayed
getEpicStateKeepsReplayed(m, f, p, channelId, upToMessageId, liveIds) ==
  LET got == getEpicEvents(m, f, p, channelId)
      Replayed(e) ==
        /\ upToMessageId = NullId \/ LocaleCompare(e.messageId, upToMessageId) <= 0
        /\ liveIds = None \/ e.messageId \in liveIds[1]
  IN [m |-> [got.m EXCEPT !.ec[f][p][channelId] = Some(SelectSeq(got.ret, Replayed))],
      ret |-> ReplayLoop(got.ret, upToMessageId, liveIds, None)]

\* liveIds is None for null and Some(set) for a Set
getEpicState(m, f, p, channelId, upToMessageId, liveIds) ==
  LET got == getEpicEvents(m, f, p, channelId)
  IN [m |-> got.m, ret |-> ReplayLoop(got.ret, upToMessageId, liveIds, None)]

forkEpicState(m, f, p, parentChannelId, threadId, threadCreationMessageId) ==
  LET got == getEpicEvents(m, f, p, parentChannelId)
      UpTo(e) == LocaleCompare(e.messageId, threadCreationMessageId) <= 0
      forkedEvents == SelectSeq(got.ret, UpTo)
  IN IF Len(forkedEvents) > 0
       THEN saveEpicEvents(got.m, f, p, threadId, forkedEvents)
       ELSE got.m

-----------------------------------------------------------------------------
(* The factory's snapshot of the message ids *)

\* the Map built by the loop messagePositions.set(ids[i], i): the last index wins
PositionMap(ids) ==
  [id \in MsgIds |->
     IF \E i \in 1..Len(ids) : ids[i] = id
       THEN (CHOOSE i \in 1..Len(ids) :
               ids[i] = id /\ \A j \in 1..Len(ids) : ids[j] = id => j <= i) - 1
       ELSE 0 - 1]

SetOf(ids) == {ids[i] : i \in 1..Len(ids)}

Infinity == <<"inf", 0>>

\* messagesSinceId of a context c: the Map is the factory's, the array is the
\* one captured when the context was made
messagesSinceId(c, messageId) ==
  IF messageId = NullId THEN Infinity
  ELSE LET position == messagePositions[c.f][messageId]
       IN IF position = 0 - 1 THEN Infinity
          ELSE JNum(Len(c.messageIds) - 1 - position)

\* Math.min
Min(a, b) == IF a <= b THEN a ELSE b

calculateCurrentDepthNoMin(f, lastModifiedAt, targetDepth) ==
  IF lastModifiedAt = NullId THEN targetDepth
  ELSE LET position == messagePositions[f][lastModifiedAt]
       IN IF position = 0 - 1 THEN targetDepth
          ELSE Len(messageIds[f]) - 1 - position

calculateCurrentDepthAbsentZero(f, lastModifiedAt, targetDepth) ==
  IF lastModifiedAt = NullId THEN targetDepth
  ELSE LET position == messagePositions[f][lastModifiedAt]
       IN IF position = 0 - 1 THEN 0
          ELSE Min(Len(messageIds[f]) - 1 - position, targetDepth)

\* calculateCurrentDepth of factory f
calculateCurrentDepth(f, lastModifiedAt, targetDepth) ==
  IF lastModifiedAt = NullId THEN targetDepth
  ELSE LET position == messagePositions[f][lastModifiedAt]
       IN IF position = 0 - 1 THEN targetDepth
          ELSE Min(Len(messageIds[f]) - 1 - position, targetDepth)

-----------------------------------------------------------------------------
(* Operations *)

\* the step ends with memory m and the record rec of what was done
Commit(m, rec) ==
  \E x \in {[m |-> m, rec |-> rec]} :
    \E n \in {Collect([x.m EXCEPT !.held = x.rec.val])} :
      /\ n.ok
      /\ globalFile' = n.gf
      /\ channelFile' = n.cf
      /\ epicFile' = n.ef
      /\ globalCache' = n.gc
      /\ channelCache' = n.cc
      /\ epicEventsCache' = n.ec
      /\ heap' = n.heap
      /\ last' = [x.rec EXCEPT !.val = n.held]

\* what last records of an operation op, before its own fields are filled in
Rec(op) == [NoOp EXCEPT !.op = op, !.val = last.val, !.written = last.written]

\* where getChannelState takes an inherited state from ("" when it is not inherited)
InheritedFrom(ret) ==
  IF ret.metadata.historyOriginChannelId # Undefined
    THEN ret.metadata.historyOriginChannelId
    ELSE ret.metadata.parentChannelId

\* new PluginContextFactory({cacheDir, messageIds}), taking the place of factory f
\* once the activation that used f is over and its calls have completed
NewFactory(f, ids) ==
  LET gone == ctx # None /\ ctx[1].f = f
      m == [Mem EXCEPT !.gc[f] = [p \in Plugins |-> JNull],
                       !.cc[f] = [p \in Plugins |-> [c \in Channels |-> None]],
                       !.ec[f] = [p \in Plugins |-> [c \in Channels |-> None]]]
  IN /\ calls[f] = None
     /\ messageIds' = [messageIds EXCEPT ![f] = ids]
     /\ messageIdSet' = [messageIdSet EXCEPT ![f] = SetOf(ids)]
     /\ messagePositions' = [messagePositions EXCEPT ![f] = PositionMap(ids)]
     /\ stateManagers' = [stateManagers EXCEPT ![f] = {}]
     /\ ctx' = IF gone THEN None ELSE ctx
     /\ Commit(m, [Rec("new") EXCEPT !.f = f, !.ids = ids,
                                     !.val = IF gone THEN JNull ELSE last.val])
     /\ UNCHANGED <<calls, tree, placement, dispatch, records, logging>>

\* updateMessageIds without messagePositions.clear(): the ids that left the list
\* keep their positions
updateMessageIdsNoClear(f, ids) ==
  /\ messageIds' = [messageIds EXCEPT ![f] = ids]
  /\ messageIdSet' = [messageIdSet EXCEPT ![f] = SetOf(ids)]
  /\ messagePositions' = [messagePositions EXCEPT ![f] =
                            [id \in MsgIds |-> IF id \in SetOf(ids) THEN PositionMap(ids)[id]
                                               ELSE messagePositions[f][id]]]
  /\ last' = [Rec("updateMessageIds") EXCEPT
                !.f = f, !.len = Len(messageIds[f]), !.ids = ids,
                !.messageId = IF messageIds[f] = <<>> THEN NullId
                              ELSE messageIds[f][Len(messageIds[f])]]
  /\ UNCHANGED <<diskVars, cacheVars, heap, ctx, calls, tree, placement, dispatch, records, logging>>

\* updateMessageIds(ids) of factory f; last keeps the length and the newest id
\* of the list it replaces
updateMessageIds(f, ids) ==
  /\ messageIds' = [messageIds EXCEPT ![f] = ids]
  /\ messageIdSet' = [messageIdSet EXCEPT ![f] = SetOf(ids)]
  /\ messagePositions' = [messagePositions EXCEPT ![f] = PositionMap(ids)]
  /\ last' = [Rec("updateMessageIds") EXCEPT
                !.f = f, !.len = Len(messageIds[f]), !.ids = ids,
                !.messageId = IF messageIds[f] = <<>> THEN NullId
                              ELSE messageIds[f][Len(messageIds[f])]]
  /\ UNCHANGED <<diskVars, cacheVars, heap, ctx, calls, tree, placement, dispatch, records, logging>>

createStateContext(f, pluginId, channelId, currentMessageId, inheritanceInfo, epicReducer) ==
  /\ stateManagers' = [stateManagers EXCEPT ![f] = @ \cup {pluginId}]
  /\ ctx' = Some([f |-> f, pluginId |-> pluginId, channelId |-> channelId,
                  currentMessageId |-> currentMessageId,
                  inheritanceInfo |-> inheritanceInfo,
                  epicReducer |-> epicReducer,
                  contextMessageIds |-> messageIdSet[f],
                  messageIds |-> messageIds[f]])
  /\ last' = [Rec("createStateContext") EXCEPT !.f = f, !.p = pluginId,
                                               !.channelId = channelId]
  /\ UNCHANGED <<diskVars, globalCache, channelCache, epicEventsCache, factoryVars, heap, calls, tree, placement, dispatch, records, logging>>

\* getState(scope) that replays the log for epic scope with or without a reducer
getStateAlwaysReplays(scope) ==
  /\ ctx # None
  /\ LET c == ctx[1]
         rec == [Rec("getState") EXCEPT !.f = c.f, !.p = c.pluginId,
                                        !.channelId = c.channelId, !.scope = scope,
                                        !.inh = c.inheritanceInfo,
                                        !.outcome = "returned"]
     IN IF scope = "global" THEN
          \E r \in {getGlobalState(Mem, c.f, c.pluginId)} :
            Commit(r.m, [rec EXCEPT !.val = r.ret, !.snap = Stringify(r.m.heap, r.ret)])
        ELSE IF scope = "channel" THEN
          \E r \in {getChannelState(Mem, c.f, c.pluginId, c.channelId, c.inheritanceInfo)} :
            Commit(r.m, [rec EXCEPT !.val = r.ret.state,
                                     !.snap = Stringify(r.m.heap, r.ret.state),
                                     !.other = InheritedFrom(r.ret)])
        ELSE
          \E r \in {getEpicState(Mem, c.f, c.pluginId, c.channelId, NullId,
                                Some(c.contextMessageIds))} :
            Commit(r.m, [rec EXCEPT !.estate = r.ret, !.live = Some(c.contextMessageIds)])
  /\ UNCHANGED <<stateManagers, factoryVars, ctx, calls, tree, placement, dispatch, records, logging>>

\* getState(scope) that rolls channel state back: a state whose message is not
\* in the context's message ids reads as null
getStateRollsBack(scope) ==
  /\ ctx # None
  /\ LET c == ctx[1]
         rec == [Rec("getState") EXCEPT !.f = c.f, !.p = c.pluginId,
                                        !.channelId = c.channelId, !.scope = scope,
                                        !.inh = c.inheritanceInfo,
                                        !.outcome = "returned"]
     IN IF scope = "global" THEN
          \E r \in {getGlobalState(Mem, c.f, c.pluginId)} :
            Commit(r.m, [rec EXCEPT !.val = r.ret, !.snap = Stringify(r.m.heap, r.ret)])
        ELSE IF scope = "channel" \/ ~c.epicReducer THEN
          \E r \in {getChannelState(Mem, c.f, c.pluginId, c.channelId, c.inheritanceInfo)} :
            LET kept == r.ret.metadata.lastModifiedMessageId \in c.contextMessageIds
                state == IF kept THEN r.ret.state ELSE JNull
            IN Commit(r.m, [rec EXCEPT !.val = state,
                                        !.snap = Stringify(r.m.heap, state),
                                        !.other = InheritedFrom(r.ret)])
        ELSE
          \E r \in {getEpicState(Mem, c.f, c.pluginId, c.channelId, NullId,
                                Some(c.contextMessageIds))} :
            Commit(r.m, [rec EXCEPT !.estate = r.ret, !.live = Some(c.contextMessageIds)])
  /\ UNCHANGED <<stateManagers, factoryVars, ctx, calls, tree, placement, dispatch, records, logging>>

\* the context's getState(scope)
getState(scope) ==
  /\ ctx # None
  /\ LET c == ctx[1]
         rec == [Rec("getState") EXCEPT !.f = c.f, !.p = c.pluginId,
                                        !.channelId = c.channelId, !.scope = scope,
                                        !.inh = c.inheritanceInfo,
                                        !.outcome = "returned"]
     IN IF scope = "global" THEN
          \E r \in {getGlobalState(Mem, c.f, c.pluginId)} :
            Commit(r.m, [rec EXCEPT !.val = r.ret, !.snap = Stringify(r.m.heap, r.ret)])
        ELSE IF scope = "channel" \/ ~c.epicReducer THEN
          \E r \in {getChannelState(Mem, c.f, c.pluginId, c.channelId, c.inheritanceInfo)} :
            Commit(r.m, [rec EXCEPT !.val = r.ret.state,
                                     !.snap = Stringify(r.m.heap, r.ret.state),
                                     !.other = InheritedFrom(r.ret)])
        ELSE
          \E r \in {getEpicState(Mem, c.f, c.pluginId, c.channelId, NullId,
                                Some(c.contextMessageIds))} :
            Commit(r.m, [rec EXCEPT !.estate = r.ret, !.live = Some(c.contextMessageIds)])
  /\ UNCHANGED <<stateManagers, factoryVars, ctx, calls, tree, placement, dispatch, records, logging>>

\* the value a caller passes: null, a number, a new object literal, or the
\* object it already holds
Resolve(m, input) ==
  IF input[1] = "new" THEN NewObject(m, input[2])
  ELSE IF input[1] = "held" THEN [m |-> m, val |-> m.held]
  ELSE [m |-> m, val |-> input]

\* what the key of context c held before a write: state of its own, a state
\* it inherits, or none
StateBefore(c, scope) ==
  IF scope = "global"
    THEN IF globalCache[c.f][c.pluginId] # JNull \/ globalFile[c.pluginId] # None
           THEN "own" ELSE "none"
  ELSE IF scope = "channel"
    THEN IF HasOwnState(Mem, c.f, c.pluginId, c.channelId) THEN "own"
         ELSE IF InheritedFrom(getChannelState(Mem, c.f, c.pluginId, c.channelId,
                                               c.inheritanceInfo).ret) # Undefined
           THEN "inherited" ELSE "none"
  ELSE IF getEpicEvents(Mem, c.f, c.pluginId, c.channelId).ret # <<>> THEN "own" ELSE "none"

\* the context's setState(scope, state); timestamp is the clock's reading
setState(scope, input, timestamp) ==
  /\ ctx # None
  /\ \E c \in {ctx[1]}, a \in {Resolve(Mem, input)} :
     LET state == a.val
         m0 == [a.m EXCEPT !.held = state]
         rec == [Rec("setState") EXCEPT !.f = c.f, !.p = c.pluginId,
                                        !.channelId = c.channelId, !.scope = scope,
                                        !.inh = c.inheritanceInfo,
                                        !.messageId = c.currentMessageId,
                                        !.val = state,
                                        !.snap = Stringify(m0.heap, state),
                                        !.before = StateBefore(c, scope),
                                        !.outcome = "returned",
                                        !.len = IF scope = "epic"
                                                  THEN Len(getEpicEvents(Mem, c.f,
                                                         c.pluginId, c.channelId).ret)
                                                  ELSE 0]
     IN IF scope = "global" THEN
          Commit(setGlobalState(m0, c.f, c.pluginId, state), rec)
        ELSE IF scope = "channel" THEN
          Commit(setChannelState(m0, c.f, c.pluginId, c.channelId, state,
                                 c.currentMessageId), rec)
        ELSE
          /\ state[1] = "num"
          /\ Commit(recordEpicEvent(m0, c.f, c.pluginId, c.channelId,
                                    c.currentMessageId, timestamp, state[2]), rec)
  /\ UNCHANGED <<stateManagers, factoryVars, ctx, calls, tree, placement, dispatch, records, logging>>

\* getStateAtMessage that replays without the live set
getStateAtMessageUnfiltered(messageId) ==
  /\ ctx # None
  /\ LET c == ctx[1]
         rec == [Rec("getStateAtMessage") EXCEPT
                   !.f = c.f, !.p = c.pluginId, !.channelId = c.channelId,
                   !.messageId = messageId,
                   !.before = IF epicEventsCache[c.f][c.pluginId][c.channelId] = None
                                THEN "file" ELSE "cache"]
     IN IF ~c.epicReducer THEN Commit(Mem, rec)
        ELSE \E r \in {getEpicState(Mem, c.f, c.pluginId, c.channelId, messageId, None)} :
               Commit(r.m, [rec EXCEPT !.estate = r.ret,
                                       !.live = Some(c.contextMessageIds)])
  /\ UNCHANGED <<stateManagers, factoryVars, ctx, calls, tree, placement, dispatch, records, logging>>

\* the context's getStateAtMessage(messageId); estate None is null
getStateAtMessage(messageId) ==
  /\ ctx # None
  /\ LET c == ctx[1]
         rec == [Rec("getStateAtMessage") EXCEPT
                   !.f = c.f, !.p = c.pluginId, !.channelId = c.channelId,
                   !.messageId = messageId,
                   !.before = IF epicEventsCache[c.f][c.pluginId][c.channelId] = None
                                THEN "file" ELSE "cache"]
     IN IF ~c.epicReducer THEN Commit(Mem, rec)
        ELSE \E r \in {getEpicState(Mem, c.f, c.pluginId, c.channelId, messageId,
                                     Some(c.contextMessageIds))} :
               Commit(r.m, [rec EXCEPT !.estate = r.ret,
                                       !.live = Some(c.contextMessageIds)])
  /\ UNCHANGED <<stateManagers, factoryVars, ctx, calls, tree, placement, dispatch, records, logging>>

\* the plugin changes the object it holds in place (state.lastUsed = ...)
MutateInPlace(n) ==
  /\ IsRef(Held)
  /\ heap[Held[2]] # n
  /\ heap' = [heap EXCEPT ![Held[2]] = n]
  /\ last' = [Rec("mutate") EXCEPT !.snap = JObj(n), !.other = last.other,
                                   !.f = last.f, !.p = last.p]
  /\ UNCHANGED <<diskVars, cacheVars, factoryVars, ctx, calls, tree, placement, dispatch, records, logging>>

\* a direct call of PluginStateManager.getChannelState on the manager of (f, p)
GetChannelState(f, p, channelId, inheritFrom) ==
  /\ p \in stateManagers[f]
  /\ \E r \in {getChannelState(Mem, f, p, channelId, inheritFrom)} :
       Commit(r.m, [Rec("getChannelState") EXCEPT
                       !.f = f, !.p = p, !.channelId = channelId, !.inh = inheritFrom,
                       !.val = r.ret.state, !.snap = Stringify(r.m.heap, r.ret.state),
                       !.metadata = r.ret.metadata, !.other = InheritedFrom(r.ret),
                       !.lookups = channelStateLookups(Mem, f, p, channelId,
                                                       inheritFrom)])
  /\ UNCHANGED <<stateManagers, factoryVars, ctx, calls, tree, placement, dispatch, records, logging>>

\* a direct call of PluginStateManager.setChannelState; messageId is NullId when
\* the optional argument is left out
SetChannelState(f, p, channelId, input, messageId) ==
  /\ p \in stateManagers[f]
  /\ \E a \in {Resolve(Mem, input)} :
       Commit(setChannelState([a.m EXCEPT !.held = a.val], f, p, channelId, a.val,
                              messageId),
              [Rec("setChannelState") EXCEPT
                 !.f = f, !.p = p, !.channelId = channelId, !.messageId = messageId,
                 !.val = a.val, !.snap = Stringify(a.m.heap, a.val)])
  /\ UNCHANGED <<stateManagers, factoryVars, ctx, calls, tree, placement, dispatch, records, logging>>

\* a direct call of PluginStateManager.recordEpicEvent
RecordEpicEvent(f, p, channelId, messageId, timestamp, delta) ==
  /\ p \in stateManagers[f]
  /\ LET before == getEpicEvents(Mem, f, p, channelId).ret
     IN Commit(recordEpicEvent(Mem, f, p, channelId, messageId, timestamp, delta),
               [Rec("recordEpicEvent") EXCEPT
                  !.f = f, !.p = p, !.channelId = channelId, !.messageId = messageId,
                  !.num = JNum(delta), !.len = Len(before)])
  /\ UNCHANGED <<stateManagers, factoryVars, ctx, calls, tree, placement, dispatch, records, logging>>

\* a direct call of PluginStateManager.getEpicState with the plugin's reducer
GetEpicState(f, p, channelId, upToMessageId, liveIds) ==
  /\ p \in stateManagers[f]
  /\ \E r \in {getEpicState(Mem, f, p, channelId, upToMessageId, liveIds)} :
       Commit(r.m, [Rec("getEpicState") EXCEPT
                       !.f = f, !.p = p, !.channelId = channelId,
                       !.messageId = upToMessageId, !.live = liveIds,
                       !.estate = r.ret,
                       !.before = IF epicEventsCache[f][p][channelId] = None
                                    THEN "file" ELSE "cache"])
  /\ UNCHANGED <<stateManagers, factoryVars, ctx, calls, tree, placement, dispatch, records, logging>>

\* a direct call of PluginStateManager.forkEpicState
ForkEpicState(f, p, parentChannelId, threadId, threadCreationMessageId) ==
  /\ p \in stateManagers[f]
  /\ Commit(forkEpicState(Mem, f, p, parentChannelId, threadId, threadCreationMessageId),
            [Rec("forkEpicState") EXCEPT
               !.f = f, !.p = p, !.channelId = threadId, !.other = parentChannelId,
               !.messageId = threadCreationMessageId])
  /\ UNCHANGED <<stateManagers, factoryVars, ctx, calls, tree, placement, dispatch, records, logging>>

\* the context's messagesSinceId(messageId)
MessagesSinceId(messageId) ==
  /\ ctx # None
  /\ last' = [Rec("messagesSinceId") EXCEPT !.f = ctx[1].f, !.messageId = messageId,
                                            !.num = messagesSinceId(ctx[1], messageId)]
  /\ UNCHANGED <<diskVars, cacheVars, factoryVars, heap, ctx, calls, tree, placement, dispatch, records, logging>>

\* a call of the factory's calculateCurrentDepth
CalculateCurrentDepth(f, lastModifiedAt, targetDepth) ==
  /\ last' = [Rec("calculateCurrentDepth") EXCEPT
                !.f = f, !.messageId = lastModifiedAt, !.len = targetDepth,
                !.num = JNum(calculateCurrentDepth(f, lastModifiedAt, targetDepth))]
  /\ UNCHANGED <<diskVars, cacheVars, factoryVars, heap, ctx, calls, tree, placement, dispatch, records, logging>>

-----------------------------------------------------------------------------
(* setChannelState step by step: it awaits the read of the existing state,
   mkdir and writeFile, and calls of other activations run in between *)

\* a file whose bytes are not one JSON text: it is empty, or a shorter text
\* was written over the start of a longer one
Torn(size) == [torn |-> size]
IsTorn(content) == "torn" \in DOMAIN content

\* the length of the text of a stored state
TextLen(json) ==
  IF json = JNull THEN 4
  ELSE IF json[1] = "num" THEN Len(Digits(json[2]))
  ELSE 21 + Len(Digits(json[2]))

\* the length of JSON.stringify({state, metadata}, null, 2), up to the part
\* that is the same for every file
FileSize(data) ==
  TextLen(data.state)
    + (IF data.metadata.lastModifiedMessageId = NullId THEN 4
       ELSE 2 + Len(data.metadata.lastModifiedMessageId))

SizeOf(content) == IF IsTorn(content) THEN content.torn ELSE FileSize(content)

\* what getChannelState(channelId) of the manager of (f, p) answers: the cached
\* state, else the parse of the file, which throws on a text that is not JSON
ChannelView(f, p, channelId) ==
  IF channelCache[f][p][channelId] # None
    THEN [outcome |-> "returned",
          snap |-> Stringify(heap, channelCache[f][p][channelId][1].state)]
  ELSE IF channelFile[p][channelId] = None
    THEN [outcome |-> "returned", snap |-> JNull]
  ELSE IF IsTorn(channelFile[p][channelId][1])
    THEN [outcome |-> "thrown", snap |-> JNull]
  ELSE [outcome |-> "returned", snap |-> channelFile[p][channelId][1].state]

\* setChannelState(channelId, state, messageId) is called on the manager of (f, p)
setChannelStateCall(f, p, channelId, input, messageId) ==
  /\ p \in stateManagers[f]
  /\ calls[f] = None
  /\ calls' = [calls EXCEPT ![f] =
                 Some([pc |-> "read", p |-> p, channelId |-> channelId, state |-> input,
                       messageId |-> messageId, metadata |-> EmptyMetadata,
                       view |-> ChannelView(f, p, channelId)])]
  /\ last' = [Rec("setChannelStateCall") EXCEPT !.f = f, !.p = p, !.channelId = channelId]
  /\ UNCHANGED <<diskVars, cacheVars, factoryVars, heap, ctx, tree, placement, dispatch, records, logging>>

\* const existing = await this.getChannelState(channelId): JSON.parse throws on a
\* torn file and the call is over
setChannelStateRead(f) ==
  /\ calls[f] # None /\ calls[f][1].pc = "read"
  /\ LET call == calls[f][1]
         content == channelFile[call.p][call.channelId]
     IN IF channelCache[f][call.p][call.channelId] = None /\ content # None
             /\ IsTorn(content[1])
          THEN /\ calls' = [calls EXCEPT ![f] = None]
               /\ last' = [Rec("setChannelStateThrows") EXCEPT
                             !.f = f, !.p = call.p, !.channelId = call.channelId]
               /\ UNCHANGED <<diskVars, cacheVars, factoryVars, heap, ctx, tree, placement, dispatch, records, logging>>
          ELSE \E r \in {getOwnChannelState(Mem, f, call.p, call.channelId)} :
                 /\ calls' = [calls EXCEPT ![f] =
                      Some([call EXCEPT
                              !.pc = "open",
                              !.metadata =
                                 [r.ret.metadata EXCEPT !.lastModifiedMessageId =
                                    IF call.messageId # NullId THEN call.messageId
                                    ELSE r.ret.metadata.lastModifiedMessageId]])]
                 /\ Commit(r.m, [Rec("setChannelStateRead") EXCEPT
                                   !.f = f, !.p = call.p, !.channelId = call.channelId])
                 /\ UNCHANGED <<stateManagers, factoryVars, ctx, tree, placement, dispatch, records, logging>>

\* await fs.writeFile(path, text), first part: the file is opened with
\* truncation
setChannelStateOpen(f) ==
  /\ calls[f] # None /\ calls[f][1].pc = "open"
  /\ LET call == calls[f][1]
     IN /\ channelFile' = [channelFile EXCEPT ![call.p][call.channelId] = Some(Torn(0))]
        /\ calls' = [calls EXCEPT ![f] = Some([call EXCEPT !.pc = "write"])]
        /\ last' = [Rec("setChannelStateOpen") EXCEPT
                      !.f = f, !.p = call.p, !.channelId = call.channelId]
  /\ UNCHANGED <<globalFile, epicFile, cacheVars, factoryVars, heap, ctx, tree, placement, dispatch, records, logging>>

\* await fs.writeFile(path, text), second part: the text is written from
\* offset 0 over what the file holds by then
setChannelStateWrite(f) ==
  /\ calls[f] # None /\ calls[f][1].pc = "write"
  /\ LET call == calls[f][1]
         data == [state |-> Stringify(heap, call.state), metadata |-> call.metadata]
         old == channelFile[call.p][call.channelId][1]
     IN /\ channelFile' = [channelFile EXCEPT ![call.p][call.channelId] =
                             IF FileSize(data) >= SizeOf(old) THEN Some(data)
                             ELSE Some(Torn(SizeOf(old)))]
        /\ calls' = [calls EXCEPT ![f] = Some([call EXCEPT !.pc = "cache"])]
        /\ last' = [Rec("setChannelStateWrite") EXCEPT
                      !.f = f, !.p = call.p, !.channelId = call.channelId,
                      !.written = Some(data)]
  /\ UNCHANGED <<globalFile, epicFile, cacheVars, factoryVars, heap, ctx, tree, placement, dispatch, records, logging>>

\* this.channelCache.set(channelId, {state, metadata: existing.metadata}): the
\* new state is cached with the metadata the channel had before
setChannelStateDoneOldMetadata(f) ==
  /\ calls[f] # None /\ calls[f][1].pc = "cache"
  /\ LET call == calls[f][1]
         old == channelCache[f][call.p][call.channelId]
     IN /\ channelCache' = [channelCache EXCEPT ![f][call.p][call.channelId] =
                              Some([state |-> call.state,
                                    metadata |-> IF old = None THEN EmptyMetadata
                                                 ELSE old[1].metadata])]
        /\ calls' = [calls EXCEPT ![f] = None]
        /\ last' = [Rec("setChannelStateDone") EXCEPT
                      !.f = f, !.p = call.p, !.channelId = call.channelId,
                      !.messageId = call.messageId,
                      !.snap = Stringify(heap, call.state)]
  /\ UNCHANGED <<diskVars, stateManagers, globalCache, epicEventsCache, factoryVars,
                 heap, ctx, tree, placement, dispatch, records, logging>>

\* this.channelCache.set(channelId, data): the call has completed
setChannelStateDone(f) ==
  /\ calls[f] # None /\ calls[f][1].pc = "cache"
  /\ LET call == calls[f][1]
     IN /\ channelCache' = [channelCache EXCEPT ![f][call.p][call.channelId] =
                              Some([state |-> call.state, metadata |-> call.metadata])]
        /\ calls' = [calls EXCEPT ![f] = None]
        /\ last' = [Rec("setChannelStateDone") EXCEPT
                      !.f = f, !.p = call.p, !.channelId = call.channelId,
                      !.messageId = call.messageId,
                      !.snap = Stringify(heap, call.state)]
  /\ UNCHANGED <<diskVars, stateManagers, globalCache, epicEventsCache, factoryVars,
                 heap, ctx, tree, placement, dispatch, records, logging>>

\* getChannelState(channelId) on the manager of (f, p) while calls are under
\* way: JSON.parse throws on a torn file, and the catch block rethrows
GetChannelStateDuringWrites(f, p, channelId) ==
  /\ p \in stateManagers[f]
  /\ IF channelCache[f][p][channelId] = None /\ channelFile[p][channelId] # None
          /\ IsTorn(channelFile[p][channelId][1])
       THEN /\ last' = [Rec("getChannelState") EXCEPT
                          !.f = f, !.p = p, !.channelId = channelId,
                          !.outcome = "thrown", !.err = "SyntaxError"]
            /\ UNCHANGED <<diskVars, cacheVars, factoryVars, heap, ctx, calls, tree, placement, dispatch, records, logging>>
       ELSE \E r \in {getOwnChannelState(Mem, f, p, channelId)} :
              /\ Commit(r.m, [Rec("getChannelState") EXCEPT
                                !.f = f, !.p = p, !.channelId = channelId,
                                !.val = r.ret.state,
                                !.snap = Stringify(r.m.heap, r.ret.state),
                                !.metadata = r.ret.metadata,
                                !.before = IF HasOwnState(Mem, f, p, channelId)
                                             THEN "own" ELSE "none",
                                !.outcome = "returned"])
              /\ UNCHANGED <<stateManagers, factoryVars, ctx, calls, tree, placement, dispatch, records, logging>>

-----------------------------------------------------------------------------
(* Reads that fail: fs.readFile rejects with an error other than ENOENT, or
   JSON.parse throws on the text it is given *)

\* EIO: the read fails; SyntaxError: the text read is not one JSON text
ReadErrors == {"EIO", "SyntaxError"}

\* the read of a file fails with err: a text can only be corrupt when the file exists
CanFail(file, err) == err = "EIO" \/ file # None

\* getChannelState(channelId) without inheritance info while reading the file
\* of channel failing fails with err; thrown says whether the call throws
getOwnChannelStateReadError(m, f, p, channelId, failing, err) ==
  IF m.cc[f][p][channelId] = None /\ channelId = failing
       /\ CanFail(m.cf[p][channelId], err)
    THEN [m |-> m, ret |-> [state |-> JNull, metadata |-> EmptyMetadata], thrown |-> TRUE]
    ELSE LET r == getOwnChannelState(m, f, p, channelId)
         IN [m |-> r.m, ret |-> r.ret, thrown |-> FALSE]

\* getChannelState(channelId, inheritFrom) while reading the file of channel
\* failing fails with err: the catch block rethrows what is not ENOENT, and an
\* error of the read of the origin or the parent leaves the catch block
getChannelStateReadError(m, f, p, channelId, inheritFrom, failing, err) ==
  LET own == getOwnChannelStateReadError(m, f, p, channelId, failing, err)
      nothing == [state |-> JNull, metadata |-> EmptyMetadata]
  IN IF own.thrown \/ HasOwnState(m, f, p, channelId) THEN own
     ELSE
       LET o == IF inheritFrom.historyOriginChannelId # Undefined
                  THEN getOwnChannelStateReadError(m, f, p,
                         inheritFrom.historyOriginChannelId, failing, err)
                  ELSE [m |-> m, ret |-> nothing, thrown |-> FALSE]
       IN IF o.thrown THEN o
          ELSE IF inheritFrom.historyOriginChannelId # Undefined /\ Truthy(o.ret.state)
            THEN [m |-> o.m,
                  ret |-> [state |-> o.ret.state,
                           metadata |-> [o.ret.metadata EXCEPT !.historyOriginChannelId =
                                           inheritFrom.historyOriginChannelId]],
                  thrown |-> FALSE]
          ELSE
            LET q == IF inheritFrom.parentChannelId # Undefined
                       THEN getOwnChannelStateReadError(o.m, f, p,
                              inheritFrom.parentChannelId, failing, err)
                       ELSE [m |-> o.m, ret |-> nothing, thrown |-> FALSE]
            IN IF q.thrown THEN q
               ELSE IF inheritFrom.parentChannelId # Undefined /\ Truthy(q.ret.state)
                 THEN [m |-> q.m,
                       ret |-> [state |-> q.ret.state,
                                metadata |-> [q.ret.metadata EXCEPT !.parentChannelId =
                                                inheritFrom.parentChannelId]],
                       thrown |-> FALSE]
               ELSE [m |-> q.m, ret |-> nothing, thrown |-> FALSE]

\* getEpicEvents(channelId) while reading the event file of channel failing
\* fails with err
getEpicEventsReadError(m, f, p, channelId, failing, err) ==
  IF m.ec[f][p][channelId] = None /\ channelId = failing
       /\ CanFail(m.ef[p][channelId], err)
    THEN [m |-> m, ret |-> <<>>, thrown |-> TRUE]
    ELSE LET r == getEpicEvents(m, f, p, channelId)
         IN [m |-> r.m, ret |-> r.ret, thrown |-> FALSE]

\* the context's getState(scope) of channel or epic scope while a read of the
\* file of channel failing fails with err: nothing between the manager and
\* the plugin catches the error
getStateReadError(scope, failing, err) ==
  /\ ctx # None
  /\ scope \in {"channel", "epic"}
  /\ LET c == ctx[1]
         rec == [Rec("getState") EXCEPT !.f = c.f, !.p = c.pluginId,
                                        !.channelId = c.channelId, !.scope = scope,
                                        !.inh = c.inheritanceInfo, !.err = err,
                                        !.outcome = "thrown"]
     IN IF scope = "channel" \/ ~c.epicReducer THEN
          \E r \in {getChannelStateReadError(Mem, c.f, c.pluginId, c.channelId,
                                             c.inheritanceInfo, failing, err)} :
            /\ r.thrown
            /\ Commit(r.m, [rec EXCEPT !.val = JNull])
        ELSE
          \E r \in {getEpicEventsReadError(Mem, c.f, c.pluginId, c.channelId,
                                           failing, err)} :
            /\ r.thrown
            /\ Commit(r.m, [rec EXCEPT !.val = JNull])
  /\ UNCHANGED <<stateManagers, factoryVars, ctx, calls, tree, placement, dispatch, records, logging>>

-----------------------------------------------------------------------------
(* Writes that fail: fs.mkdir or fs.writeFile rejects before the file is
   changed (no permission, no space, read-only file system) *)

WriteErrors == {"EACCES", "ENOSPC"}

\* setState that catches the error of the write, logs it and returns
setStateWriteErrorSwallowed(scope, input, timestamp, err) ==
  /\ ctx # None
  /\ \E c \in {ctx[1]}, a \in {Resolve(Mem, input)} :
     LET state == a.val
         m0 == [a.m EXCEPT !.held = state]
         rec == [Rec("setState") EXCEPT !.f = c.f, !.p = c.pluginId,
                                        !.channelId = c.channelId, !.scope = scope,
                                        !.inh = c.inheritanceInfo,
                                        !.messageId = c.currentMessageId,
                                        !.val = state,
                                        !.snap = Stringify(m0.heap, state),
                                        !.before = StateBefore(c, scope),
                                        !.err = err, !.outcome = "returned"]
     IN IF scope = "global" THEN Commit(m0, rec)
        ELSE IF scope = "channel" THEN
          Commit(getOwnChannelState(m0, c.f, c.pluginId, c.channelId).m, rec)
        ELSE
          /\ state[1] = "num"
          /\ Commit(getEpicEvents(m0, c.f, c.pluginId, c.channelId).m, rec)
  /\ UNCHANGED <<stateManagers, factoryVars, ctx, calls, tree, placement, dispatch, records, logging>>

\* the context's setState(scope, state) while the write of the file fails with
\* err: the manager's method has read what it reads before the write, the
\* await of mkdir or writeFile throws, the cache is not set, and the error
\* leaves setState
setStateWriteError(scope, input, timestamp, err) ==
  /\ ctx # None
  /\ \E c \in {ctx[1]}, a \in {Resolve(Mem, input)} :
     LET state == a.val
         m0 == [a.m EXCEPT !.held = state]
         rec == [Rec("setState") EXCEPT !.f = c.f, !.p = c.pluginId,
                                        !.channelId = c.channelId, !.scope = scope,
                                        !.inh = c.inheritanceInfo,
                                        !.messageId = c.currentMessageId,
                                        !.val = state,
                                        !.snap = Stringify(m0.heap, state),
                                        !.before = StateBefore(c, scope),
                                        !.err = err, !.outcome = "thrown"]
     IN IF scope = "global" THEN Commit(m0, rec)
        ELSE IF scope = "channel" THEN
          Commit(getOwnChannelState(m0, c.f, c.pluginId, c.channelId).m, rec)
        ELSE
          /\ state[1] = "num"
          /\ Commit(getEpicEvents(m0, c.f, c.pluginId, c.channelId).m, rec)
  /\ UNCHANGED <<stateManagers, factoryVars, ctx, calls, tree, placement, dispatch, records, logging>>

-----------------------------------------------------------------------------
(* The files by path: the manager joins the identifiers it is given into the
   path of the file, whatever they hold *)

\* an identifier as the list of its parts between path separators:
\* <<"parent">> is "parent" and <<"..", "global">> is "../global"
RawPluginIds == {<<"notes">>, <<"notes", "sub">>}
RawChannelIds == {<<"parent">>, <<"..", "global">>}

HasSeparator(id) == Len(id) > 1

RECURSIVE Normalize(_, _)
\* the normalisation of path.join: "." and "" are dropped, ".." takes back
\* the part before it
Normalize(done, rest) ==
  IF rest = <<>> THEN done
  ELSE LET h == Head(rest) IN
       IF h = "." \/ h = "" THEN Normalize(done, Tail(rest))
       ELSE IF h = ".." /\ done # <<>> /\ done[Len(done)] # ".."
         THEN Normalize(SubSeq(done, 1, Len(done) - 1), Tail(rest))
       ELSE Normalize(Append(done, h), Tail(rest))

\* a path below cacheDir: the directory, and the file's name without .json
\* path.join(cacheDir, 'plugins', pluginId, 'global.json')
globalPath(pluginId) ==
  [dir |-> Normalize(<<>>, <<"plugins">> \o pluginId), name |-> "global"]

\* path.join(cacheDir, 'plugins', pluginId, 'channel', `${channelId}.json`)
channelPath(pluginId, channelId) ==
  [dir |-> Normalize(<<>>, <<"plugins">> \o pluginId \o <<"channel">>
                            \o SubSeq(channelId, 1, Len(channelId) - 1)),
   name |-> channelId[Len(channelId)]]

\* path.join(cacheDir, 'plugins', pluginId, 'epic', `${channelId}.json`)
epicEventsPath(pluginId, channelId) ==
  [dir |-> Normalize(<<>>, <<"plugins">> \o pluginId \o <<"epic">>
                            \o SubSeq(channelId, 1, Len(channelId) - 1)),
   name |-> channelId[Len(channelId)]]

\* the paths the operations can name
TreePaths ==
  {globalPath(p) : p \in RawPluginIds}
  \cup {channelPath(p, c) : p \in RawPluginIds, c \in RawChannelIds}
  \cup {epicEventsPath(p, c) : p \in RawPluginIds, c \in RawChannelIds}

\* the value of an absent property
UndefinedValue == <<"undefined", 0>>
\* a parsed JSON text that is an object or an array of another use
Foreign(kind) == <<"foreign", kind>>
\* the metadata property of a value that has none
UndefinedMetadata == [undefined |-> TRUE]
\* what JSON.parse gives for an event file: the array of events, or for a text
\* of another use a value that is no array
Array(events) == [array |-> TRUE, events |-> events]
NoArray == [array |-> FALSE, events |-> <<>>]

\* the texts written: JSON.stringify(state), JSON.stringify({state, metadata})
\* and JSON.stringify(events)
GlobalText(state) == [kind |-> "global", state |-> state]
ChannelText(data) == [kind |-> "channel", state |-> data.state, metadata |-> data.metadata]
EpicText(events) == [kind |-> "epic", events |-> events]

EmptyTree ==
  [files |-> [path \in TreePaths |-> None],
   globalCache |-> [p \in RawPluginIds |-> JNull],
   channelCache |-> [p \in RawPluginIds |-> [c \in RawChannelIds |-> None]],
   epicEventsCache |-> [p \in RawPluginIds |-> [c \in RawChannelIds |-> None]]]

\* the results: the tree after the call, what it returns or "throws", and the
\* paths it read or wrote
Returned(t, ret, touched) == [t |-> t, outcome |-> "returned", ret |-> ret, touched |-> touched]
Thrown(t, err, touched) == [t |-> t, outcome |-> err, ret |-> UndefinedValue, touched |-> touched]

\* getGlobalState of the manager made for pluginId
getGlobalStateAt(t, pluginId) ==
  IF t.globalCache[pluginId] # JNull THEN Returned(t, t.globalCache[pluginId], {})
  ELSE LET path == globalPath(pluginId) IN
       IF t.files[path] = None THEN Returned(t, JNull, {path})
       ELSE LET text == t.files[path][1]
                parsed == IF text.kind = "global" THEN text.state ELSE Foreign(text.kind)
            IN Returned([t EXCEPT !.globalCache[pluginId] = parsed], parsed, {path})

\* setGlobalState of the manager made for pluginId
setGlobalStateAt(t, pluginId, state) ==
  LET path == globalPath(pluginId)
  IN Returned([t EXCEPT !.files[path] = Some(GlobalText(state)),
                        !.globalCache[pluginId] = state],
              UndefinedValue, {path})

\* getChannelState(channelId) of the manager made for pluginId
getChannelStateAt(t, pluginId, channelId) ==
  IF t.channelCache[pluginId][channelId] # None
    THEN Returned(t, t.channelCache[pluginId][channelId][1], {})
  ELSE LET path == channelPath(pluginId, channelId) IN
       IF t.files[path] = None
         THEN Returned(t, [state |-> JNull, metadata |-> EmptyMetadata], {path})
       ELSE LET text == t.files[path][1] IN
            IF text.kind = "global" /\ text.state = JNull
              THEN Thrown(t, "TypeError", {path})
            ELSE LET result == IF text.kind = "channel"
                                 THEN [state |-> text.state, metadata |-> text.metadata]
                                 ELSE [state |-> UndefinedValue, metadata |-> UndefinedMetadata]
                 IN Returned([t EXCEPT !.channelCache[pluginId][channelId] = Some(result)],
                             result, {path})

\* setChannelState(channelId, state, messageId) of the manager made for pluginId
setChannelStateAt(t, pluginId, channelId, state, messageId) ==
  LET existing == getChannelStateAt(t, pluginId, channelId)
      path == channelPath(pluginId, channelId)
  IN IF existing.outcome # "returned" THEN existing
     ELSE IF messageId = NullId /\ existing.ret.metadata = UndefinedMetadata
       THEN Thrown(existing.t, "TypeError", existing.touched)
     ELSE LET spread == IF existing.ret.metadata = UndefinedMetadata THEN EmptyMetadata
                        ELSE existing.ret.metadata
              metadata == [spread EXCEPT !.lastModifiedMessageId =
                             IF messageId # NullId THEN messageId
                             ELSE spread.lastModifiedMessageId]
              data == [state |-> state, metadata |-> metadata]
          IN Returned([existing.t EXCEPT
                         !.files[path] = Some(ChannelText(data)),
                         !.channelCache[pluginId][channelId] = Some(data)],
                      UndefinedValue, existing.touched \cup {path})

\* recordEpicEvent(channelId, messageId, delta) of the manager made for pluginId
recordEpicEventAt(t, pluginId, channelId, messageId, timestamp, delta) ==
  LET path == epicEventsPath(pluginId, channelId)
      cached == t.epicEventsCache[pluginId][channelId] # None
      read == IF cached \/ t.files[path] = None THEN {} ELSE {path}
      touched == IF cached THEN {} ELSE {path}
      parsed == IF cached THEN t.epicEventsCache[pluginId][channelId][1]
                ELSE IF t.files[path] = None THEN Array(<<>>)
                ELSE IF t.files[path][1].kind = "epic" THEN Array(t.files[path][1].events)
                ELSE NoArray
      t1 == IF read = {} THEN t
            ELSE [t EXCEPT !.epicEventsCache[pluginId][channelId] = Some(parsed)]
  IN IF ~parsed.array THEN Thrown(t1, "TypeError", touched)
     ELSE LET Keep(e) == e.messageId # messageId
              pushed == Append(SelectSeq(parsed.events, Keep),
                               [messageId |-> messageId, timestamp |-> timestamp,
                                delta |-> delta])
              sorted == SortByMessageId(pushed)
          IN Returned([t1 EXCEPT !.files[path] = Some(EpicText(sorted)),
                                 !.epicEventsCache[pluginId][channelId] = Some(Array(sorted))],
                      UndefinedValue, touched \cup {path})

\* a state operation on the manager made for pluginId has ended with result r
StoreCall(op, pluginId, channelId, r) ==
  /\ tree' = r.t
  /\ UNCHANGED <<placement, dispatch, records, logging>>
  /\ last' = [Rec(op) EXCEPT !.pid = pluginId, !.cid = channelId,
                             !.outcome = r.outcome, !.touched = r.touched,
                             !.num = IF r.outcome = "returned" THEN r.ret ELSE JNull]
  /\ UNCHANGED <<diskVars, cacheVars, factoryVars, heap, ctx, calls>>

GetGlobalStateAt(pluginId) ==
  StoreCall("getGlobalState", pluginId, <<>>, getGlobalStateAt(tree, pluginId))

SetGlobalStateAt(pluginId, state) ==
  StoreCall("setGlobalState", pluginId, <<>>, setGlobalStateAt(tree, pluginId, state))

GetChannelStateAt(pluginId, channelId) ==
  StoreCall("getChannelState", pluginId, channelId,
            getChannelStateAt(tree, pluginId, channelId))

SetChannelStateAt(pluginId, channelId, state, messageId) ==
  StoreCall("setChannelState", pluginId, channelId,
            setChannelStateAt(tree, pluginId, channelId, state, messageId))

RecordEpicEventAt(pluginId, channelId, messageId, timestamp, delta) ==
  StoreCall("recordEpicEvent", pluginId, channelId,
            recordEpicEventAt(tree, pluginId, channelId, messageId, timestamp, delta))

-----------------------------------------------------------------------------
(* The injection placer. The runtime collects the ContextInjection records
   that the plugins submit for one context build and places them into the
   transcript; the steps are those of section 4.5 of the specification. *)

Anchors == {"latest", "earliest"}

InjectionIds == <<"x", "y">>

\* the depths of the bounds, and one that is larger than any transcript
InjectionDepths == Depths \cup {99}

Priorities == {0, 10}

\* a submission: the plugin that submits, and the fields of its injection
Injections ==
  [pluginId : Plugins, id : {InjectionIds[i] : i \in 1..Len(InjectionIds)},
   depth : InjectionDepths, anchor : Anchors, priority : Priorities]

\* the position of a name in a list of names in ascending order
Rank(order, name) == CHOOSE i \in 1..Len(order) : order[i] = name

\* an entry of the transcript: an original message or one placed injection
Message(i) == [kind |-> "msg", pluginId |-> "", id |-> "", n |-> i]

Entry(inj) == [kind |-> "inj", pluginId |-> inj.pluginId, id |-> inj.id, n |-> 0]

Transcript(n) == [i \in 1..n |-> Message(i)]

\* step 1: deduplicate by (pluginId, injection.id); a later submission
\* overwrites an earlier one
RECURSIVE Deduplicate(_)
Deduplicate(subs) ==
  IF subs = <<>> THEN <<>>
  ELSE LET first == Head(subs)
           rest == Tail(subs)
       IN IF \E i \in 1..Len(rest) : /\ rest[i].pluginId = first.pluginId
                                     /\ rest[i].id = first.id
          THEN Deduplicate(rest)
          ELSE <<first>> \o Deduplicate(rest)

\* the anchor is counted from the start of the transcript, and the depth is
\* only clamped from above
InsertionIndexIgnoresAnchor(inj, n) == Min(inj.depth, n)

\* step 2: the insertion index of an injection in a transcript of n messages
InsertionIndex(inj, n) ==
  IF inj.anchor = "latest"
  THEN Min(IF n - inj.depth < 0 THEN 0 ELSE n - inj.depth, n)
  ELSE Min(IF inj.depth < 0 THEN 0 ELSE inj.depth, n)

\* step 3: the sort key (insertionIndex ascending, priority descending,
\* pluginId ascending, id ascending)
SortsBefore(a, b, n) ==
  LET ia == InsertionIndex(a, n)
      ib == InsertionIndex(b, n)
      pa == Rank(PluginSeq, a.pluginId)
      pb == Rank(PluginSeq, b.pluginId)
  IN \/ ia < ib
     \/ ia = ib /\ a.priority > b.priority
     \/ ia = ib /\ a.priority = b.priority /\ pa < pb
     \/ /\ ia = ib /\ a.priority = b.priority /\ pa = pb
        /\ Rank(InjectionIds, a.id) < Rank(InjectionIds, b.id)

RECURSIVE InsertInOrder(_, _, _)
InsertInOrder(sorted, inj, n) ==
  IF sorted = <<>> THEN <<inj>>
  ELSE IF SortsBefore(inj, Head(sorted), n) THEN <<inj>> \o sorted
       ELSE <<Head(sorted)>> \o InsertInOrder(Tail(sorted), inj, n)

RECURSIVE SortInjections(_, _)
SortInjections(list, n) ==
  IF list = <<>> THEN <<>>
  ELSE InsertInOrder(SortInjections(Tail(list), n), Head(list), n)

\* one insertion: the entry goes to position index of the transcript, which
\* leaves index entries before it
InsertAt(transcript, index, entry) ==
  SubSeq(transcript, 1, index) \o <<entry>> \o
  SubSeq(transcript, index + 1, Len(transcript))

RECURSIVE ApplyInsertions(_, _, _)
ApplyInsertions(transcript, list, n) ==
  IF list = <<>> THEN transcript
  ELSE ApplyInsertions(InsertAt(transcript, InsertionIndex(Head(list), n),
                                Entry(Head(list))),
                       Tail(list), n)

\* step 4: the insertions from the highest index to the lowest; the
\* insertions of one index are applied in the sort order
RECURSIVE InsertionOrder(_, _, _)
InsertionOrder(sorted, index, n) ==
  IF index < 0 THEN <<>>
  ELSE SelectSeq(sorted, LAMBDA inj : InsertionIndex(inj, n) = index)
       \o InsertionOrder(sorted, index - 1, n)

\* the placer: steps 1 to 5 on a transcript of n messages
PlaceInjections(n, subs) ==
  LET sorted == SortInjections(Deduplicate(subs), n)
  IN ApplyInsertions(Transcript(n), InsertionOrder(sorted, n, n), n)

NoBuild == [pc |-> "idle", n |-> 0, submitted |-> <<>>, output |-> <<>>]

\* one context build: the plugins have submitted subs for a transcript of n
\* messages
Place(n, subs) ==
  /\ placement.pc = "idle"
  /\ placement' = [pc |-> "placed", n |-> n, submitted |-> subs,
                   output |-> PlaceInjections(n, subs)]
  /\ last' = Rec("place")
  /\ UNCHANGED <<diskVars, cacheVars, factoryVars, heap, ctx, calls, tree, dispatch, records, logging>>

-----------------------------------------------------------------------------
(* The tool dispatcher. A tool call names a plugin and one of its PluginTool
   records and carries the raw input of the model; the steps are those of
   section 4.8 of the specification. *)

PropertyNames == {"text", "count"}

\* what a raw input holds for a property: nothing, or a value of a JSON type
ValueKinds == {"absent", "string", "number", "boolean"}

RawInputs == [PropertyNames -> ValueKinds]

\* the plugins that are registered and the tools they declare: name,
\* inputSchema (properties with their types, required) and whether the plugin
\* defines the optional hook onToolExecution
Registry ==
  [notes |->
     [tools |->
        [add_note |->
           [inputSchema |-> [properties |-> [text |-> "string", count |-> "number"],
                             required |-> {"text"}]],
         list_notes |->
           [inputSchema |-> [properties |-> [text |-> "string", count |-> "number"],
                             required |-> {}]]],
      onToolExecution |-> TRUE],
   config |->
     [tools |->
        [get_config |->
           [inputSchema |-> [properties |-> [text |-> "string", count |-> "number"],
                             required |-> {"text", "count"}]]],
      onToolExecution |-> FALSE]]

PluginNames == DOMAIN Registry \cup {"missing"}

ToolNames == {"add_note", "list_notes", "get_config"}

\* the required properties are present; the types of the values are not looked at
ValidatesRequiredOnly(rawInput, inputSchema) ==
  \A name \in inputSchema.required : rawInput[name] # "absent"

\* step 3: rawInput against tool.inputSchema
Validates(rawInput, inputSchema) ==
  /\ \A name \in inputSchema.required : rawInput[name] # "absent"
  /\ \A name \in DOMAIN inputSchema.properties :
       rawInput[name] \in {"absent", inputSchema.properties[name]}

NoCall ==
  [pc |-> "idle", pluginName |-> "", toolName |-> "",
   rawInput |-> [name \in PropertyNames |-> "absent"],
   outcome |-> "", result |-> "", handler |-> 0, hook |-> 0]

\* what a handler can return
Results == {"ok", "failed"}

Fails(pluginName, toolName, rawInput, error) ==
  [pc |-> "done", pluginName |-> pluginName, toolName |-> toolName,
   rawInput |-> rawInput, outcome |-> error, result |-> "", handler |-> 0,
   hook |-> 0]

\* steps 1 to 4 of a tool call (pluginName, toolName, rawInput): the lookups,
\* the validation, and the call of tool.handler, which is then awaited
ToolCall(pluginName, toolName, rawInput) ==
  /\ dispatch.pc = "idle"
  /\ dispatch' =
       IF pluginName \notin DOMAIN Registry
       THEN Fails(pluginName, toolName, rawInput, "UnknownPlugin")
       ELSE IF toolName \notin DOMAIN Registry[pluginName].tools
       THEN Fails(pluginName, toolName, rawInput, "UnknownTool")
       ELSE IF ~Validates(rawInput, Registry[pluginName].tools[toolName].inputSchema)
       THEN Fails(pluginName, toolName, rawInput, "InvalidInput")
       ELSE [pc |-> "handler", pluginName |-> pluginName, toolName |-> toolName,
             rawInput |-> rawInput, outcome |-> "", result |-> "", handler |-> 1,
             hook |-> 0]
  /\ last' = Rec("toolCall")
  /\ UNCHANGED <<diskVars, cacheVars, factoryVars, heap, ctx, calls, tree, placement, records, logging>>

\* tool.handler throws: the exception propagates as ToolExecutionError
HandlerThrows ==
  /\ dispatch.pc = "handler"
  /\ dispatch' = [dispatch EXCEPT !.pc = "done", !.outcome = "ToolExecutionError"]
  /\ last' = Rec("handlerThrows")
  /\ UNCHANGED <<diskVars, cacheVars, factoryVars, heap, ctx, calls, tree, placement, records, logging>>

\* tool.handler returns its result; step 5 calls the plugin's hook when the
\* plugin defines one, step 6 returns the result otherwise
HandlerReturns(result) ==
  /\ dispatch.pc = "handler"
  /\ dispatch' =
       IF Registry[dispatch.pluginName].onToolExecution
       THEN [dispatch EXCEPT !.pc = "hook", !.result = result, !.hook = 1]
       ELSE [dispatch EXCEPT !.pc = "done", !.result = result, !.outcome = result]
  /\ last' = Rec("handlerReturns")
  /\ UNCHANGED <<diskVars, cacheVars, factoryVars, heap, ctx, calls, tree, placement, records, logging>>

\* the hook returns or throws, and its exception reaches the caller in place
\* of the result
HookEndsPropagates(threw) ==
  /\ dispatch.pc = "hook"
  /\ dispatch' = [dispatch EXCEPT !.pc = "done",
                    !.outcome = IF threw THEN "HookError" ELSE dispatch.result]
  /\ last' = [Rec("hookEnds") EXCEPT !.err = IF threw THEN "thrown" ELSE ""]
  /\ UNCHANGED <<diskVars, cacheVars, factoryVars, heap, ctx, calls, tree, placement, records, logging>>

\* the hook returns or throws; an exception is logged and the result of the
\* tool is returned all the same
HookEnds(threw) ==
  /\ dispatch.pc = "hook"
  /\ dispatch' = [dispatch EXCEPT !.pc = "done", !.outcome = dispatch.result]
  /\ last' = [Rec("hookEnds") EXCEPT !.err = IF threw THEN "logged" ELSE ""]
  /\ UNCHANGED <<diskVars, cacheVars, factoryVars, heap, ctx, calls, tree, placement, records, logging>>

-----------------------------------------------------------------------------
(* recordEpicEvent step by step: the calls of one manager are suspended at the
   awaits of getEpicEvents (fs.readFile) and of saveEpicEvents (fs.mkdir,
   fs.writeFile), and another call of the same manager can run in between.
   A write is one step here. *)

\* the calls that can be under way at once
RecordCalls == {"first", "second"}

\* calls: the calls under way; recorded: the message ids of the calls that
\* have completed; overlapped: a call has started while another was under way
NoRecords ==
  [calls |-> [k \in RecordCalls |-> None], recorded |-> {}, overlapped |-> FALSE]

\* recordEpicEvent(channelId, messageId, delta) is called on the manager of
\* (f, p): getEpicEvents answers from the cache at once, or starts to read the file
recordEpicEventCall(k, f, p, channelId, messageId, delta) ==
  /\ p \in stateManagers[f]
  /\ records.calls[k] = None
  /\ LET cached == epicEventsCache[f][p][channelId]
     IN records' =
          [records EXCEPT
             !.calls[k] = Some([pc |-> IF cached # None THEN "got" ELSE "reading",
                                f |-> f, p |-> p, channelId |-> channelId,
                                messageId |-> messageId, delta |-> delta,
                                events |-> IF cached # None THEN cached[1] ELSE <<>>]),
             !.overlapped = @ \/ \E j \in RecordCalls \ {k} : records.calls[j] # None]
  /\ last' = [Rec("recordEpicEventCall") EXCEPT
                !.f = f, !.p = p, !.channelId = channelId, !.messageId = messageId]
  /\ UNCHANGED <<diskVars, cacheVars, factoryVars, heap, ctx, calls, tree, placement,
                 dispatch, logging>>

\* fs.readFile of getEpicEvents has completed: the events of the file are
\* cached and returned, or [] when there is no file
recordEpicEventRead(k) ==
  /\ records.calls[k] # None /\ records.calls[k][1].pc = "reading"
  /\ LET call == records.calls[k][1]
         file == epicFile[call.p][call.channelId]
     IN /\ epicEventsCache' =
             IF file = None THEN epicEventsCache
             ELSE [epicEventsCache EXCEPT ![call.f][call.p][call.channelId] = file]
        /\ records' = [records EXCEPT
                         !.calls[k] = Some([call EXCEPT
                                              !.pc = "got",
                                              !.events = IF file = None THEN <<>>
                                                         ELSE file[1]])]
        /\ last' = [Rec("recordEpicEventRead") EXCEPT
                      !.f = call.f, !.p = call.p, !.channelId = call.channelId,
                      !.messageId = call.messageId]
  /\ UNCHANGED <<diskVars, stateManagers, globalCache, channelCache, factoryVars, heap,
                 ctx, calls, tree, placement, dispatch, logging>>

\* the events the call got are dropped and the log starts anew
recordEpicEventSaveAnew(k) ==
  /\ records.calls[k] # None /\ records.calls[k][1].pc = "got"
  /\ LET call == records.calls[k][1]
     IN /\ records' = [records EXCEPT
                         !.calls[k] = Some([call EXCEPT
                                              !.pc = "writing",
                                              !.events = <<[messageId |-> call.messageId,
                                                            timestamp |-> Now,
                                                            delta |-> call.delta]>>])]
        /\ last' = [Rec("recordEpicEventSave") EXCEPT
                      !.f = call.f, !.p = call.p, !.channelId = call.channelId,
                      !.messageId = call.messageId]
  /\ UNCHANGED <<diskVars, cacheVars, factoryVars, heap, ctx, calls, tree, placement,
                 dispatch, logging>>

\* the call goes on with the events it got: filter, push, sort, and
\* saveEpicEvents starts to write
recordEpicEventSave(k) ==
  /\ records.calls[k] # None /\ records.calls[k][1].pc = "got"
  /\ LET call == records.calls[k][1]
         Keep(e) == e.messageId # call.messageId
         filtered == SelectSeq(call.events, Keep)
         pushed == Append(filtered, [messageId |-> call.messageId, timestamp |-> Now,
                                     delta |-> call.delta])
     IN /\ records' = [records EXCEPT
                         !.calls[k] = Some([call EXCEPT
                                              !.pc = "writing",
                                              !.events = SortByMessageId(pushed)])]
        /\ last' = [Rec("recordEpicEventSave") EXCEPT
                      !.f = call.f, !.p = call.p, !.channelId = call.channelId,
                      !.messageId = call.messageId]
  /\ UNCHANGED <<diskVars, cacheVars, factoryVars, heap, ctx, calls, tree, placement,
                 dispatch, logging>>

\* fs.writeFile of saveEpicEvents has completed
recordEpicEventWrite(k) ==
  /\ records.calls[k] # None /\ records.calls[k][1].pc = "writing"
  /\ LET call == records.calls[k][1]
     IN /\ epicFile' = [epicFile EXCEPT ![call.p][call.channelId] = Some(call.events)]
        /\ records' = [records EXCEPT !.calls[k] = Some([call EXCEPT !.pc = "written"])]
        /\ last' = [Rec("recordEpicEventWrite") EXCEPT
                      !.f = call.f, !.p = call.p, !.channelId = call.channelId,
                      !.messageId = call.messageId]
  /\ UNCHANGED <<globalFile, channelFile, cacheVars, factoryVars, heap, ctx, calls, tree,
                 placement, dispatch, logging>>

\* the call completes and leaves the cache entry as it was
recordEpicEventDoneNoCache(k) ==
  /\ records.calls[k] # None /\ records.calls[k][1].pc = "written"
  /\ LET call == records.calls[k][1]
     IN /\ records' = [records EXCEPT !.calls[k] = None,
                                      !.recorded = @ \cup {call.messageId}]
        /\ last' = [Rec("recordEpicEventDone") EXCEPT
                      !.f = call.f, !.p = call.p, !.channelId = call.channelId,
                      !.messageId = call.messageId]
  /\ UNCHANGED <<diskVars, cacheVars, factoryVars, heap, ctx, calls, tree, placement,
                 dispatch, logging>>

\* this.epicEventsCache.set(channelId, events): the call has completed
recordEpicEventDone(k) ==
  /\ records.calls[k] # None /\ records.calls[k][1].pc = "written"
  /\ LET call == records.calls[k][1]
     IN /\ epicEventsCache' =
             [epicEventsCache EXCEPT ![call.f][call.p][call.channelId] = Some(call.events)]
        /\ records' = [records EXCEPT !.calls[k] = None,
                                      !.recorded = @ \cup {call.messageId}]
        /\ last' = [Rec("recordEpicEventDone") EXCEPT
                      !.f = call.f, !.p = call.p, !.channelId = call.channelId,
                      !.messageId = call.messageId]
  /\ UNCHANGED <<diskVars, stateManagers, globalCache, channelCache, factoryVars, heap,
                 ctx, calls, tree, placement, dispatch, logging>>

-----------------------------------------------------------------------------
(* Activation logging (withActivationLogging of the logger module) *)

\* the calls of withActivationLogging that can be under way at once; the
\* stream a call opens is named after the call
LogCalls == {"first", "second"}

\* the activation ids `${channelId}:${messageId}` of the calls
ActivationIds == {<<c, m>> : c \in {"parent", "thread"}, m \in {Digits(9), Digits(10)}}

\* no call is under way, the map is empty and no stream was opened
NoLogging ==
  [activationLoggers |-> [id \in ActivationIds |-> None],
   streams |-> [k \in LogCalls |-> "none"],
   calls |-> [k \in LogCalls |-> None]]

\* withActivationLogging(channelId, messageId, fn) up to the await: the stream
\* is created and activationLoggers.set(activationId, {logger, stream})
\* replaces whatever entry the id had
withActivationLoggingCall(k, channelId, messageId) ==
  /\ logging.calls[k] = None
  /\ logging' = [logging EXCEPT
                   !.streams[k] = "open",
                   !.activationLoggers[<<channelId, messageId>>] = Some(k),
                   !.calls[k] = Some(<<channelId, messageId>>)]
  /\ last' = [Rec("withActivationLoggingCall") EXCEPT
                !.other = k, !.channelId = channelId, !.messageId = messageId]
  /\ UNCHANGED <<diskVars, cacheVars, factoryVars, heap, ctx, calls, tree, placement,
                 dispatch, records>>

\* fn has resolved or thrown, and the finally block runs: the entry that the
\* map holds for the activation id, if any, has its stream ended and is deleted
withActivationLoggingFinally(k, threw) ==
  /\ logging.calls[k] # None
  /\ LET activationId == logging.calls[k][1]
         entry == logging.activationLoggers[activationId]
     IN /\ logging' = [logging EXCEPT
                         !.streams = IF entry = None THEN @
                                     ELSE [@ EXCEPT ![entry[1]] = "ended"],
                         !.activationLoggers[activationId] = None,
                         !.calls[k] = None]
        /\ last' = [Rec("withActivationLogging") EXCEPT
                      !.other = k, !.channelId = activationId[1],
                      !.messageId = activationId[2],
                      !.outcome = IF threw THEN "thrown" ELSE "returned"]
  /\ UNCHANGED <<diskVars, cacheVars, factoryVars, heap, ctx, calls, tree, placement,
                 dispatch, records>>

-----------------------------------------------------------------------------
(* setChannelState whose writeFile rejects: the cache is set only after the
   await, so the call leaves the cache as its own read left it *)

\* await fs.mkdir / fs.writeFile rejects before the file is opened: the file
\* is as it was, and the call throws
setChannelStateOpenFails(f, err) ==
  /\ calls[f] # None /\ calls[f][1].pc = "open"
  /\ LET call == calls[f][1]
     IN /\ calls' = [calls EXCEPT ![f] = None]
        /\ last' = [Rec("setChannelStateFails") EXCEPT
                      !.f = f, !.p = call.p, !.channelId = call.channelId,
                      !.snap = Stringify(heap, call.state),
                      !.before = call.view,
                      !.outcome = "thrown", !.err = err]
  /\ UNCHANGED <<diskVars, cacheVars, factoryVars, heap, ctx, tree, placement, dispatch, records, logging>>

\* await fs.writeFile rejects after the file was opened with truncation: the
\* file stays empty, and the call throws
setChannelStateWriteFails(f, err) ==
  /\ calls[f] # None /\ calls[f][1].pc = "write"
  /\ LET call == calls[f][1]
     IN /\ calls' = [calls EXCEPT ![f] = None]
        /\ last' = [Rec("setChannelStateFails") EXCEPT
                      !.f = f, !.p = call.p, !.channelId = call.channelId,
                      !.snap = Stringify(heap, call.state),
                      !.before = call.view,
                      !.outcome = "thrown", !.err = err]
  /\ UNCHANGED <<diskVars, cacheVars, factoryVars, heap, ctx, tree, placement, dispatch, records, logging>>

-----------------------------------------------------------------------------
(* Specifications *)

\* a process that has just started on an empty cache directory
Init ==
  /\ globalFile = [p \in Plugins |-> None]
  /\ channelFile = [p \in Plugins |-> [c \in Channels |-> None]]
  /\ epicFile = [p \in Plugins |-> [c \in Channels |-> None]]
  /\ stateManagers = [f \in Factories |-> {}]
  /\ globalCache = [f \in Factories |-> [p \in Plugins |-> JNull]]
  /\ channelCache = [f \in Factories |-> [p \in Plugins |-> [c \in Channels |-> None]]]
  /\ epicEventsCache = [f \in Factories |-> [p \in Plugins |-> [c \in Channels |-> None]]]
  /\ messageIds = [f \in Factories |-> <<>>]
  /\ messageIdSet = [f \in Factories |-> {}]
  /\ messagePositions = [f \in Factories |-> PositionMap(<<>>)]
  /\ heap = [r \in Refs |-> 0]
  /\ ctx = None
  /\ calls = [f \in Factories |-> None]
  /\ tree = EmptyTree
  /\ placement = NoBuild
  /\ dispatch = NoCall
  /\ records = NoRecords
  /\ logging = NoLogging
  /\ last = NoOp

FirstMsg == CHOOSE id \in MsgIds : \A o \in MsgIds : LocaleCompare(id, o) <= 0

\* the blobs a plugin writes here: null, a new object, the object it holds
BlobInputs == {JNull, <<"held", 0>>} \cup {<<"new", n>> : n \in Counters}

\* the contexts of the activations: the parent channel, and its thread
BlobContexts ==
  {<<"parent", NoInheritance>>,
   <<"thread", [NoInheritance EXCEPT !.parentChannelId = "parent"]>>}

\* global and channel scope of one plugin, one activation at a time
NextBlob ==
  \/ NewFactory("f1", <<>>)
  \/ \E c \in BlobContexts : createStateContext("f1", "notes", c[1], FirstMsg, c[2], FALSE)
  \/ \E scope \in {"global", "channel"} : getState(scope)
  \/ \E scope \in {"global", "channel"}, input \in BlobInputs : setState(scope, input, Now)
  \/ \E n \in Counters : MutateInPlace(n)

SpecBlob == Init /\ [][NextBlob]_vars

\* the numbers a plugin writes as blobs, 0 being falsy, and null
NumberInputs == {JNull} \cup {JNum(n) : n \in Counters}

\* inheritance info: each of the two channels given or not
Inheritances ==
  [parentChannelId : {Undefined, "parent"}, historyOriginChannelId : {Undefined, "origin"}]

\* channel scope over a history origin, a parent and a thread, through the
\* manager of one plugin
NextInherit ==
  \/ NewFactory("f1", <<>>)
  \/ createStateContext("f1", "notes", "thread", FirstMsg, NoInheritance, FALSE)
  \/ \E c \in Channels, input \in NumberInputs :
       SetChannelState("f1", "notes", c, input, FirstMsg)
  \/ \E inh \in Inheritances : GetChannelState("f1", "notes", "thread", inh)

SpecInherit == Init /\ [][NextInherit]_vars

\* one plugin's global and channel state of one channel, used by the
\* activations of two factories on the same cache directory
NextShared ==
  \/ \E f \in Factories : NewFactory(f, <<>>)
  \/ \E f \in Factories :
       createStateContext(f, "notes", "parent", FirstMsg, NoInheritance, FALSE)
  \/ \E scope \in {"global", "channel"} : getState(scope)
  \/ \E scope \in {"global", "channel"}, n \in Counters : setState(scope, <<"new", n>>, Now)

SpecShared == Init /\ [][NextShared]_vars

\* the message ids of the events of the parent channel and its thread
EpicIds == {Digits(n) : n \in (11 - MaxEpicMsg)..10}

\* the epic logs of a parent channel and its thread, for one plugin, in the
\* activations of one factory: events recorded on the parent, the thread's
\* context writing epic state, forks
NextEpic ==
  \/ createStateContext("f1", "notes", "thread", FirstMsg, NoInheritance, TRUE)
  \/ \E d \in Deltas : setState("epic", JNum(d), Now)
  \/ \E m \in EpicIds, d \in Deltas :
       RecordEpicEvent("f1", "notes", "parent", m, Now, d)
  \/ \E m \in EpicIds : ForkEpicState("f1", "notes", "parent", "thread", m)

SpecEpic == Init /\ [][NextEpic]_vars

\* the live sets a caller passes: null, or all message ids but one
LiveSets == {None} \cup {Some(MsgIds \ {x}) : x \in MsgIds}

\* replay of one channel's log under every bound and live set
NextReplay ==
  \/ NewFactory("f1", <<>>)
  \/ createStateContext("f1", "notes", "parent", FirstMsg, NoInheritance, TRUE)
  \/ \E m \in MsgIds, d \in Deltas :
       RecordEpicEvent("f1", "notes", "parent", m, Now, d)
  \/ \E upto \in MsgIds \cup {NullId}, live \in LiveSets :
       GetEpicState("f1", "notes", "parent", upto, live)

SpecReplay == Init /\ [][NextReplay]_vars

RECURSIVE SeqsOver(_, _)
\* the lists of at most n distinct elements of S
SeqsOver(S, n) ==
  IF n = 0 THEN {<<>>}
  ELSE LET shorter == SeqsOver(S, n - 1)
       IN shorter \cup {q \in {Append(r, y) : r \in shorter, y \in S} :
                         \A i \in 1..(Len(q) - 1) : q[i] # q[Len(q)]}

\* the message id lists an activation is given
IdLists == SeqsOver(MsgIds, MaxLen)

\* one factory whose message ids are refreshed while a context made by it is
\* in use
NextSnapshot ==
  \/ \E ids \in IdLists : NewFactory("f1", ids)
  \/ \E ids \in IdLists : updateMessageIds("f1", ids)
  \/ createStateContext("f1", "notes", "thread", FirstMsg, NoInheritance, TRUE)
  \/ \E id \in MsgIds \cup {NullId} : MessagesSinceId(id)

SpecSnapshot == Init /\ [][NextSnapshot]_vars

\* one context with a reducer writing and reading epic state, for every
\* message id list of its factory and every current message
NextOwnEpic ==
  \/ \E ids \in IdLists : NewFactory("f1", ids)
  \/ \E cur \in MsgIds :
       createStateContext("f1", "notes", "thread", cur, NoInheritance, TRUE)
  \/ \E d \in Deltas : setState("epic", JNum(d), Now)
  \/ getState("epic")

SpecOwnEpic == Init /\ [][NextOwnEpic]_vars

\* a factory whose message id list is replaced between depth calculations
NextDepth ==
  \/ \E ids \in IdLists : NewFactory("f1", ids)
  \/ \E ids \in IdLists : updateMessageIds("f1", ids)
  \/ \E id \in MsgIds \cup {NullId}, t \in Depths : CalculateCurrentDepth("f1", id, t)

SpecDepth == Init /\ [][NextDepth]_vars

\* contexts without a reducer, on a parent channel and on its thread, using
\* channel and epic scope
NextNoReducer ==
  \/ NewFactory("f1", <<>>)
  \/ \E c \in BlobContexts : createStateContext("f1", "notes", c[1], FirstMsg, c[2], FALSE)
  \/ \E input \in NumberInputs : setState("channel", input, Now)
  \/ \E d \in Deltas : setState("epic", JNum(d), Now)
  \/ \E scope \in {"channel", "epic"} : getState(scope)

SpecNoReducer == Init /\ [][NextNoReducer]_vars

RECURSIVE ListOf(_)
\* the ids of a set as a list
ListOf(S) ==
  IF S = {} THEN <<>>
  ELSE LET least == CHOOSE id \in S : \A o \in S : LocaleCompare(id, o) <= 0
       IN <<least>> \o ListOf(S \ {least})

\* the message id lists of the activations: every message, or all but one
LiveLists == {ListOf(EpicIds)} \cup {ListOf(EpicIds \ {x}) : x \in EpicIds}

\* contexts with and without a reducer asking for the state at a message,
\* over every log of their channel
NextAtMessage ==
  \/ \E ids \in LiveLists : NewFactory("f1", ids)
  \/ \E reducer \in BOOLEAN :
       createStateContext("f1", "notes", "thread", FirstMsg, NoInheritance, reducer)
  \/ \E m \in EpicIds, d \in Deltas : RecordEpicEvent("f1", "notes", "thread", m, Now, d)
  \/ \E id \in EpicIds : getStateAtMessage(id)

SpecAtMessage == Init /\ [][NextAtMessage]_vars

\* contexts of several messages writing the channel state of a parent channel
\* and of its thread
NextStamp ==
  \/ NewFactory("f1", <<>>)
  \/ \E cur \in MsgIds, c \in BlobContexts :
       createStateContext("f1", "notes", c[1], cur, c[2], FALSE)
  \/ \E input \in NumberInputs : setState("channel", input, Now)

SpecStamp == Init /\ [][NextStamp]_vars

\* two factories whose activations write the channel state of one plugin and
\* one channel, their calls running step by step
NextOverlap ==
  \/ \E f \in Factories :
       createStateContext(f, "notes", "parent", FirstMsg, NoInheritance, FALSE)
  \/ \E f \in Factories, input \in NumberInputs :
       setChannelStateCall(f, "notes", "parent", input, FirstMsg)
  \/ \E f \in Factories : setChannelStateRead(f)
  \/ \E f \in Factories : setChannelStateOpen(f)
  \/ \E f \in Factories : setChannelStateWrite(f)
  \/ \E f \in Factories : setChannelStateDone(f)

SpecOverlap == Init /\ [][NextOverlap]_vars

\* the message id lists of a short conversation
ShortLists == SeqsOver(EpicIds, MaxEpicMsg)

\* a factory whose message ids are refreshed with updateMessageIds, next to a
\* factory that is constructed anew for each list
NextRefresh ==
  \/ \E ids \in ShortLists : updateMessageIds("f1", ids)
  \/ \E ids \in ShortLists : NewFactory("f2", ids)

SpecRefresh == Init /\ [][NextRefresh]_vars

\* global state of a plain and of a nested plugin identifier, and the channel
\* and epic state of the plain one for a plain channel identifier and for one
\* that climbs out of its directory
NextPaths ==
  \/ \E p \in RawPluginIds : GetGlobalStateAt(p)
  \/ \E p \in RawPluginIds : SetGlobalStateAt(p, JNum(1))
  \/ \E c \in RawChannelIds : GetChannelStateAt(<<"notes">>, c)
  \/ \E c \in RawChannelIds : SetChannelStateAt(<<"notes">>, c, JNum(1), FirstMsg)
  \/ \E c \in RawChannelIds : RecordEpicEventAt(<<"notes">>, c, FirstMsg, Now, 1)

SpecPaths == Init /\ [][NextPaths]_vars

\* contexts with and without a reducer on a thread that inherits from its
\* parent, their reads failing at times
NextReadError ==
  \/ NewFactory("f1", <<>>)
  \/ \E c \in BlobContexts, reducer \in BOOLEAN :
       createStateContext("f1", "notes", c[1], FirstMsg, c[2], reducer)
  \/ \E n \in Counters : setState("channel", JNum(n), Now)
  \/ setState("epic", JNum(1), Now)
  \/ \E scope \in {"channel", "epic"} : getState(scope)
  \/ \E scope \in {"channel", "epic"}, failing \in {"parent", "thread"}, err \in ReadErrors :
       getStateReadError(scope, failing, err)

SpecReadError == Init /\ [][NextReadError]_vars

\* one context with a reducer writing the three scopes, its writes failing at
\* times
NextWriteError ==
  \/ NewFactory("f1", <<>>)
  \/ createStateContext("f1", "notes", "parent", FirstMsg, NoInheritance, TRUE)
  \/ \E scope \in {"global", "channel"}, input \in NumberInputs : setState(scope, input, Now)
  \/ \E d \in Deltas : setState("epic", JNum(d), Now)
  \/ \E scope \in {"global", "channel"}, input \in NumberInputs, err \in WriteErrors :
       setStateWriteError(scope, input, Now, err)
  \/ \E d \in Deltas, err \in WriteErrors : setStateWriteError("epic", JNum(d), Now, err)
  \/ \E scope \in Scopes : getState(scope)

SpecWriteError == Init /\ [][NextWriteError]_vars

\* the writes of the activations: each has its own state and its own message
PairedWrites ==
  {[state |-> JNum(0), messageId |-> <<1, 0>>], [state |-> JNum(1), messageId |-> <<9>>]}

\* two factories whose activations write and read the channel state of one
\* plugin and one channel, the writes running step by step
NextPairs ==
  \/ \E f \in Factories :
       createStateContext(f, "notes", "parent", FirstMsg, NoInheritance, FALSE)
  \/ \E f \in Factories, w \in PairedWrites :
       setChannelStateCall(f, "notes", "parent", w.state, w.messageId)
  \/ \E f \in Factories : setChannelStateRead(f)
  \/ \E f \in Factories : setChannelStateOpen(f)
  \/ \E f \in Factories : setChannelStateWrite(f)
  \/ \E f \in Factories : setChannelStateDone(f)
  \/ \E f \in Factories : GetChannelStateDuringWrites(f, "notes", "parent")

SpecPairs == Init /\ [][NextPairs]_vars

\* the live sets of a short conversation: null, or all of its messages but one
ShortLiveSets == {None} \cup {Some(EpicIds \ {x}) : x \in EpicIds}

\* replays of a thread's log, through the manager and through a context with
\* a reducer, between recordings and new factories
NextPure ==
  \/ \E ids \in LiveLists : NewFactory("f1", ids)
  \/ createStateContext("f1", "notes", "thread", FirstMsg, NoInheritance, TRUE)
  \/ \E m \in EpicIds, d \in Deltas : RecordEpicEvent("f1", "notes", "thread", m, Now, d)
  \/ \E upto \in EpicIds \cup {NullId}, live \in ShortLiveSets :
       GetEpicState("f1", "notes", "thread", upto, live)
  \/ \E id \in EpicIds : getStateAtMessage(id)

SpecPure == Init /\ [][NextPure]_vars

\* a factory whose message ids shrink and grow, by updateMessageIds and by a
\* new factory, around the contexts of a channel, which have a reducer and use
\* the three scopes
NextNoRollback ==
  \/ \E ids \in LiveLists : NewFactory("f1", ids)
  \/ \E ids \in LiveLists : updateMessageIds("f1", ids)
  \/ createStateContext("f1", "notes", "parent", FirstMsg, NoInheritance, TRUE)
  \/ \E scope \in Scopes : setState(scope, JNum(1), Now)
  \/ \E scope \in Scopes : getState(scope)

SpecNoRollback == Init /\ [][NextNoRollback]_vars

\* what the plugins submit for one build: up to two injections, among them
\* two with the same plugin and id
Submissions ==
  {<<>>} \cup {<<a>> : a \in Injections} \cup {<<a, b>> : a, b \in Injections}

\* one build in a behaviour
NextPlacer ==
  /\ placement.pc = "idle"
  /\ \E n \in 0..MaxLen, subs \in Submissions : Place(n, subs)

SpecPlacer == Init /\ [][NextPlacer]_vars

NextDispatcher ==
  \/ \E pluginName \in PluginNames, toolName \in ToolNames, rawInput \in RawInputs :
       ToolCall(pluginName, toolName, rawInput)
  \/ HandlerThrows
  \/ \E result \in Results : HandlerReturns(result)
  \/ \E threw \in BOOLEAN : HookEnds(threw)

SpecDispatcher == Init /\ [][NextDispatcher]_vars

\* inheritance info that names any channel, the channel read included
AllInheritances ==
  [parentChannelId : {Undefined} \cup Channels,
   historyOriginChannelId : {Undefined} \cup Channels]

\* channel scope of every channel read with every inheritance info
NextOneHop ==
  \/ NewFactory("f1", <<>>)
  \/ createStateContext("f1", "notes", "thread", FirstMsg, NoInheritance, FALSE)
  \/ \E c \in Channels, input \in {JNum(0), JNum(1)} :
       SetChannelState("f1", "notes", c, input, FirstMsg)
  \/ \E c \in Channels, inh \in AllInheritances : GetChannelState("f1", "notes", c, inh)

SpecOneHop == Init /\ [][NextOneHop]_vars

\* the calls recordEpicEvent of one manager on one channel, step by step
NextRecords ==
  \/ createStateContext("f1", "notes", "parent", FirstMsg, NoInheritance, TRUE)
  \/ \E k \in RecordCalls, messageId \in {Digits(9), Digits(10)} :
       recordEpicEventCall(k, "f1", "notes", "parent", messageId, 1)
  \/ \E k \in RecordCalls : recordEpicEventRead(k)
  \/ \E k \in RecordCalls : recordEpicEventSave(k)
  \/ \E k \in RecordCalls : recordEpicEventWrite(k)
  \/ \E k \in RecordCalls : recordEpicEventDone(k)

SpecRecords == Init /\ [][NextRecords]_vars

\* every operation of the manager of one plugin: global and channel state,
\* the event logs of a channel and of its thread, forks; the calls of
\* recordEpicEvent run step by step and can overlap
NextAgree ==
  \/ createStateContext("f1", "notes", "parent", FirstMsg, NoInheritance, TRUE)
  \/ getState("global")
  \/ setState("global", JNum(1), Now)
  \/ GetChannelState("f1", "notes", "parent", NoInheritance)
  \/ SetChannelState("f1", "notes", "parent", JNum(0), NullId)
  \/ \E call \in {<<"first", Digits(9)>>, <<"second", Digits(10)>>} :
       recordEpicEventCall(call[1], "f1", "notes", "parent", call[2], 1)
  \/ \E k \in RecordCalls : recordEpicEventRead(k)
  \/ \E k \in RecordCalls : recordEpicEventSave(k)
  \/ \E k \in RecordCalls : recordEpicEventWrite(k)
  \/ \E k \in RecordCalls : recordEpicEventDone(k)
  \/ GetEpicState("f1", "notes", "parent", NullId, None)
  \/ ForkEpicState("f1", "notes", "parent", "thread", Digits(10))

SpecAgree == Init /\ [][NextAgree]_vars

\* one manager whose writes of one channel's state run step by step, and
\* whose writeFile may reject before or after the file was opened
NextFailedWrite ==
  \/ createStateContext("f1", "notes", "parent", FirstMsg, NoInheritance, FALSE)
  \/ \E input \in {JNum(0), JNum(1)} :
       setChannelStateCall("f1", "notes", "parent", input, FirstMsg)
  \/ setChannelStateRead("f1")
  \/ setChannelStateOpen("f1")
  \/ setChannelStateWrite("f1")
  \/ setChannelStateDone("f1")
  \/ setChannelStateOpenFails("f1", "EACCES")
  \/ setChannelStateWriteFails("f1", "ENOSPC")
  \/ GetChannelStateDuringWrites("f1", "notes", "parent")

SpecFailedWrite == Init /\ [][NextFailedWrite]_vars

\* the blobs the plugin writes: a new object, or the object it holds
MutatedInputs == {<<"new", 0>>, <<"held", 0>>}

\* one activation of one plugin that reads, changes in place what it read,
\* and writes, some of its writes failing
NextMutate ==
  \/ createStateContext("f1", "notes", "parent", FirstMsg, NoInheritance, FALSE)
  \/ \E scope \in {"global", "channel"} : getState(scope)
  \/ \E scope \in {"global", "channel"}, input \in MutatedInputs :
       setState(scope, input, Now)
  \/ \E scope \in {"global", "channel"} :
       setStateWriteError(scope, <<"held", 0>>, Now, "EACCES")
  \/ \E n \in Counters : MutateInPlace(n)

SpecMutate == Init /\ [][NextMutate]_vars

\* the blobs stored here: 0, false, "", and 1, true, "a"
ScalarInputs ==
  {JNum(n) : n \in {0, 1}} \cup {JBool(b) : b \in {0, 1}} \cup {JString(n) : n \in {0, 1}}

\* the inheritance infos of a thread: a history origin, a parent, or both
ThreadInheritances ==
  {inh \in [parentChannelId : {Undefined, "parent"},
            historyOriginChannelId : {Undefined, "origin"}] : inh # NoInheritance}

\* the history origin and the parent are written, and the thread is read
NextFalsy ==
  \/ createStateContext("f1", "notes", "thread", FirstMsg, NoInheritance, FALSE)
  \/ \E c \in {"origin", "parent"}, input \in ScalarInputs :
       SetChannelState("f1", "notes", c, input, FirstMsg)
  \/ \E inh \in ThreadInheritances : GetChannelState("f1", "notes", "thread", inh)

SpecFalsy == Init /\ [][NextFalsy]_vars

\* the contexts of the activations: factory, plugin, channel
IsolationContexts ==
  {<<"f1", "notes", "parent">>, <<"f1", "config", "parent">>,
   <<"f2", "notes", "thread">>}

\* activations of two plugins on two channels that read and write the three
\* scopes
NextIsolation ==
  \/ \E c \in IsolationContexts :
       createStateContext(c[1], c[2], c[3], FirstMsg, NoInheritance, TRUE)
  \/ \E scope \in {"global", "channel", "epic"} : getState(scope)
  \/ \E input \in {JNum(0), JNum(1)} : setState("global", input, Now)
  \/ \E scope \in {"channel", "epic"} : setState(scope, JNum(1), Now)

SpecIsolation == Init /\ [][NextIsolation]_vars

\* activations that run inside withActivationLogging, two at a time
NextLogging ==
  \/ \E k \in LogCalls, id \in ActivationIds : withActivationLoggingCall(k, id[1], id[2])
  \/ \E k \in LogCalls, threw \in BOOLEAN : withActivationLoggingFinally(k, threw)

SpecLogging == Init /\ [][NextLogging]_vars

-----------------------------------------------------------------------------
(* Properties of global and channel scope *)

\* what getState(scope) of the context returns in this state, by value
ReadBack(scope) ==
  LET c == ctx[1] IN
  IF scope = "global"
    THEN LET r == getGlobalState(Mem, c.f, c.pluginId) IN Stringify(r.m.heap, r.ret)
    ELSE LET r == getChannelState(Mem, c.f, c.pluginId, c.channelId, c.inheritanceInfo)
         IN Stringify(r.m.heap, r.ret.state)

\* what getChannelState(channelId) of the manager of (f, p) returns, by value
OwnSnap(f, p, channelId) ==
  LET r == getOwnChannelState(Mem, f, p, channelId)
  IN [state |-> Stringify(r.m.heap, r.ret.state), metadata |-> r.ret.metadata]

\* a cache entry by value
CacheSnap(f, p, channelId) ==
  LET e == channelCache[f][p][channelId]
  IN IF e = None THEN None
     ELSE Some([state |-> Stringify(heap, e[1].state), metadata |-> e[1].metadata])

\* C1: after setState(scope, v) with scope global or channel, the next
\* getState(scope) of the same context returns v
C1_RoundTrip ==
  (last.op = "setState" /\ last.scope \in {"global", "channel"})
    => ReadBack(last.scope) = last.snap

\* a channel write of an object over a state the thread inherited until then
C1_Witness ==
  /\ last.op = "setState" /\ last.scope = "channel" /\ last.before = "inherited"
  /\ last.snap = JObj(1)
  /\ OwnSnap(last.f, last.p, "parent").state = JObj(0)

\* C5: changing in place a value that was returned through inheritance does
\* not change what getChannelState of the channel it came from returns
C5_InheritedIsCopy ==
  [][\A f \in Factories, p \in Plugins, c \in Channels :
       (last'.op = "mutate" /\ last.op = "getState" /\ last.other = c
          /\ last.f = f /\ last.p = p)
         => OwnSnap(f, p, c)' = OwnSnap(f, p, c)]_vars

\* C6: a write to the child after an inherited read leaves the stored state of
\* every other channel, file and cache, as it was; the parent reads as before
\* and the child reads the value written
C6_ChildWriteFrame ==
  [][\A f \in Factories, p \in Plugins, child \in Channels :
       (/\ last.op = "getState" /\ last.scope = "channel" /\ last.other # Undefined
        /\ last'.op = "setState" /\ last'.scope = "channel"
        /\ last'.f = f /\ last'.p = p /\ last'.channelId = child /\ ctx' = ctx)
         => /\ \A c \in Channels \ {child} :
                 /\ channelFile'[p][c] = channelFile[p][c]
                 /\ CacheSnap(f, p, c)' = CacheSnap(f, p, c)
                 /\ OwnSnap(f, p, c)' = OwnSnap(f, p, c)
            /\ ReadBack("channel")' = last'.snap]_vars

\* the child wrote {counter: 1} over the {counter: 0} it inherited
C6_Witness ==
  /\ last.op = "setState" /\ last.scope = "channel" /\ last.before = "inherited"
  /\ last.channelId = "thread" /\ last.snap = JObj(1)
  /\ CacheSnap(last.f, last.p, "parent") # None
  /\ OwnSnap(last.f, last.p, "parent").state = JObj(0)
  /\ ReadBack("channel") = JObj(1)

\* the channel has stored state of its own for the manager of (f, p)
Stored(f, p, channelId) == HasOwnState(Mem, f, p, channelId)

\* the (state, metadata) that the resolution order gives for a channel without
\* own state: the history origin's if it has stored state, else the parent's
\* if it has stored state, else (null, {lastModifiedMessageId: null})
Resolution(f, p, inh) ==
  IF inh.historyOriginChannelId # Undefined /\ Stored(f, p, inh.historyOriginChannelId)
    THEN LET o == OwnSnap(f, p, inh.historyOriginChannelId)
         IN [state |-> o.state,
             metadata |-> [o.metadata EXCEPT !.historyOriginChannelId =
                             inh.historyOriginChannelId]]
  ELSE IF inh.parentChannelId # Undefined /\ Stored(f, p, inh.parentChannelId)
    THEN LET q == OwnSnap(f, p, inh.parentChannelId)
         IN [state |-> q.state,
             metadata |-> [q.metadata EXCEPT !.parentChannelId = inh.parentChannelId]]
  ELSE [state |-> JNull, metadata |-> EmptyMetadata]

\* C4: getChannelState returns the channel's own state when it has one, and
\* otherwise resolves history origin, then parent, then (null, no message)
C4_InheritanceOrder ==
  last.op = "getChannelState" =>
    [state |-> last.snap, metadata |-> last.metadata] =
      IF Stored(last.f, last.p, last.channelId)
        THEN OwnSnap(last.f, last.p, last.channelId)
        ELSE Resolution(last.f, last.p, last.inh)

\* what getState(scope) returns to a context like the current one made by
\* factory g, by value
ReadVia(g, scope) ==
  LET c == ctx[1] IN
  IF scope = "global"
    THEN LET r == getGlobalState(Mem, g, c.pluginId) IN Stringify(r.m.heap, r.ret)
    ELSE LET r == getChannelState(Mem, g, c.pluginId, c.channelId, c.inheritanceInfo)
         IN Stringify(r.m.heap, r.ret.state)

\* C10: a completed write is what a read of the same plugin, scope and channel
\* returns through a context of any factory
C10_SharedCaches ==
  (last.op = "setState" /\ last.scope \in {"global", "channel"})
    => \A g \in Factories : ReadVia(g, last.scope) = last.snap

-----------------------------------------------------------------------------
(* Properties of epic scope *)

\* the log of a channel as the manager of (f, p) sees it
Log(f, p, channelId) == getEpicEvents(Mem, f, p, channelId).ret

\* every log the program holds, cached or on disk
AllLogs ==
  {epicFile[x[1]][x[2]][1] :
     x \in {y \in Plugins \X Channels : epicFile[y[1]][y[2]] # None}}
  \cup {epicEventsCache[x[1]][x[2]][x[3]][1] :
          x \in {y \in Factories \X Plugins \X Channels :
                   epicEventsCache[y[1]][y[2]][y[3]] # None}}

Qualifies(id, upto, live) ==
  /\ upto = NullId \/ LocaleCompare(id, upto) <= 0
  /\ live = None \/ id \in live[1]

RECURSIVE FoldAscending(_, _, _)
\* the reducer folded over the events with the given ids, least id first
FoldAscending(events, ids, state) ==
  IF ids = {} THEN state
  ELSE LET least == CHOOSE id \in ids : \A o \in ids : LocaleCompare(id, o) <= 0
           e == events[CHOOSE i \in 1..Len(events) : events[i].messageId = least]
       IN FoldAscending(events, ids \ {least}, Reducer(state, e.delta))

\* the fold from null over exactly the events that qualify
FilteredFold(events, upto, live) ==
  FoldAscending(events,
                {events[i].messageId : i \in {j \in 1..Len(events) :
                   Qualifies(events[j].messageId, upto, live)}},
                None)

\* the log without the event of the message id
Without(events, id) ==
  LET Other(e) == e.messageId # id IN SelectSeq(events, Other)

\* C2: getEpicState returns the fold, in ascending messageId order from null,
\* over the events at or before upto that are live; taking an id out of the
\* live set is the same as deleting its event
C2_ReplayIsFilteredFold ==
  last.op = "getEpicState" =>
    LET events == Log(last.f, last.p, last.channelId) IN
    /\ last.estate = FilteredFold(events, last.messageId, last.live)
    /\ \A x \in MsgIds :
         last.live # None =>
           ReplayLoop(events, last.messageId, Some(last.live[1] \ {x}), None)
             = ReplayLoop(Without(events, x), last.messageId, last.live, None)

\* a replay of three events up to the second, the first one not live
C2_Witness ==
  /\ last.op = "getEpicState"
  /\ LET events == Log(last.f, last.p, last.channelId) IN
     /\ Len(events) = 3
     /\ last.messageId = events[2].messageId
     /\ last.live = Some(MsgIds \ {events[1].messageId})
     /\ last.estate = Some(<<events[2].delta>>)

\* every bound-and-filter a replay can be asked for
AllLiveSets == {None} \cup {Some(S) : S \in SUBSET MsgIds}

\* C3: right after forkEpicState(parent, child, M), the child's replay up to M
\* equals the parent's replay up to M, for every live set
C3_ForkCorrect ==
  last.op = "forkEpicState" =>
    \A live \in AllLiveSets :
      getEpicState(Mem, last.f, last.p, last.channelId, last.messageId, live).ret
        = getEpicState(Mem, last.f, last.p, last.other, last.messageId, live).ret

Sorted(events) ==
  \A i, j \in 1..Len(events) :
    i < j => LocaleCompare(events[i].messageId, events[j].messageId) <= 0

\* C7: every epic log, cached or on disk, is sorted by messageId ascending
C7_LogsSorted == \A events \in AllLogs : Sorted(events)

\* an event arrived after an event with a greater id and now precedes it
C7_Witness ==
  /\ last.op = "recordEpicEvent"
  /\ LET events == Log(last.f, last.p, last.channelId) IN
     /\ Len(events) = 2 /\ last.len = 1
     /\ events[1].messageId = last.messageId

Unique(events) ==
  \A i, j \in 1..Len(events) : events[i].messageId = events[j].messageId => i = j

\* the events of a log for a message id
EventsOf(events, id) == {i \in 1..Len(events) : events[i].messageId = id}

\* C8: a log never holds two events of one messageId; recording for a
\* messageId that has an event replaces it, the log keeping its length, and
\* setState('epic', d) leaves one event for currentMessageId, holding d
C8_OneEventPerMessage ==
  /\ [](\A events \in AllLogs : Unique(events))
  /\ [][\A f \in Factories, p \in Plugins, c \in Channels, d \in Deltas :
          (/\ last'.f = f /\ last'.p = p /\ last'.channelId = c
           /\ \/ last'.op = "recordEpicEvent" /\ last'.num = JNum(d)
              \/ last'.op = "setState" /\ last'.scope = "epic" /\ last'.snap = JNum(d))
            => /\ \E i \in 1..Len(Log(f, p, c)') :
                    /\ EventsOf(Log(f, p, c)', last'.messageId) = {i}
                    /\ Log(f, p, c)'[i].delta = d
               /\ epicFile'[p][c] = Some(Log(f, p, c)')
               /\ EventsOf(Log(f, p, c), last'.messageId) # {}
                    => Len(Log(f, p, c)') = Len(Log(f, p, c))]_vars

\* the context wrote epic state again for its message, in a log of two events
C8_Witness ==
  /\ last.op = "setState" /\ last.scope = "epic"
  /\ Len(Log(last.f, last.p, last.channelId)) = 2
  /\ last.len = 2

-----------------------------------------------------------------------------
(* Properties of the factory's snapshot *)

\* C9: messagesSinceId(id) of a context is finite exactly when id is in the
\* contextMessageIds of that context
C9_ConsistentSnapshot ==
  last.op = "messagesSinceId" =>
    (last.num # Infinity <=> last.messageId \in ctx[1].contextMessageIds)

-----------------------------------------------------------------------------
(* Properties of a context's epic scope *)

\* C11: on a context with a reducer, the getState('epic') that follows a
\* setState('epic', d) returns the fold over the live events of the log and
\* the event just written for currentMessageId
C11_ReadYourEpicWrites ==
  [][\A f \in Factories, p \in Plugins, c \in Channels, cur \in MsgIds,
        live \in SUBSET MsgIds :
       (/\ last.op = "setState" /\ last.scope = "epic"
        /\ last'.op = "getState" /\ last'.scope = "epic"
        /\ ctx # None /\ ctx' = ctx /\ ctx[1].epicReducer
        /\ ctx[1].f = f /\ ctx[1].pluginId = p /\ ctx[1].channelId = c
        /\ ctx[1].currentMessageId = cur /\ ctx[1].contextMessageIds = live)
         => /\ EventsOf(Log(f, p, c), cur) # {}
            /\ last'.estate = FilteredFold(Log(f, p, c), NullId, Some(live \cup {cur}))]_vars


-----------------------------------------------------------------------------
(* Properties of the injection depth *)

\* the index of id in ids, from 0
IndexOf(ids, id) == (CHOOSE i \in 1..Len(ids) : ids[i] = id) - 1

\* C12: calculateCurrentDepth(lastModifiedAt, targetDepth) is targetDepth when
\* lastModifiedAt is null or not in the factory's list, else
\* min(n - 1 - pos, targetDepth); it lies between 0 and targetDepth
C12_DepthValue ==
  last.op = "calculateCurrentDepth" =>
    LET ids == messageIds[last.f]
        depth == last.num[2]
    IN /\ (last.messageId = NullId \/ last.messageId \notin SetOf(ids))
            => depth = last.len
       /\ (last.messageId # NullId /\ last.messageId \in SetOf(ids))
            => depth = Min(Len(ids) - 1 - IndexOf(ids, last.messageId), last.len)
       /\ 0 <= depth /\ depth <= last.len

\* the first of three ids was modified and the target depth is 1: depth 1
C12_Witness ==
  /\ last.op = "calculateCurrentDepth"
  /\ Len(messageIds[last.f]) = 3
  /\ last.messageId = messageIds[last.f][1]
  /\ last.len = 1
  /\ last.num = JNum(1)


\* new is old without some of its oldest ids and with ids appended that are
\* neither in old nor id
Aged(old, new, id) ==
  \E k \in 0..Len(old) :
    /\ Len(new) >= Len(old) - k
    /\ SubSeq(new, 1, Len(old) - k) = SubSeq(old, k + 1, Len(old))
    /\ \A i \in (Len(old) - k + 1)..Len(new) : new[i] \notin SetOf(old) \cup {id}

\* C13: the depth is 0 for the newest message, is targetDepth once targetDepth
\* messages follow lastModifiedAt or it is no longer in the list, and never
\* decreases when messages are appended to the list
C13_DepthAging ==
  /\ [](\A f \in Factories, id \in MsgIds, t \in Depths :
          LET ids == messageIds[f] IN
          /\ (ids # <<>> /\ ids[Len(ids)] = id) => calculateCurrentDepth(f, id, t) = 0
          /\ (id \in SetOf(ids) /\ Len(ids) - 1 - IndexOf(ids, id) >= t)
               => calculateCurrentDepth(f, id, t) = t
          /\ id \notin SetOf(ids) => calculateCurrentDepth(f, id, t) = t)
  /\ [][\A f \in Factories, id \in MsgIds, t \in Depths :
          (id \in SetOf(messageIds[f]) /\ Aged(messageIds[f], messageIds'[f], id))
            => calculateCurrentDepth(f, id, t)' >= calculateCurrentDepth(f, id, t)]_vars

\* two messages were appended after the newest one: its depth went from 0 to 2
C13_Witness ==
  /\ last.op = "updateMessageIds"
  /\ last.len = 1
  /\ Len(messageIds[last.f]) = 3
  /\ messageIds[last.f][1] = last.messageId
  /\ calculateCurrentDepth(last.f, last.messageId, 2) = 2
  /\ calculateCurrentDepth(last.f, last.messageId, 1) = 1


\* C14: messagesSinceId(id) of a context is +infinity when id is null or not in
\* the context's message id list, else n - 1 - pos(id) in that list; a finite
\* result lies between 0 and n - 1
C14_MessagesSinceValue ==
  last.op = "messagesSinceId" =>
    LET ids == ctx[1].messageIds IN
    /\ (last.messageId = NullId \/ last.messageId \notin SetOf(ids))
         => last.num = Infinity
    /\ (last.messageId # NullId /\ last.messageId \in SetOf(ids))
         => last.num = JNum(Len(ids) - 1 - IndexOf(ids, last.messageId))
    /\ last.num # Infinity => (0 <= last.num[2] /\ last.num[2] <= Len(ids) - 1)


-----------------------------------------------------------------------------
(* Properties of the fork *)

\* the events of a log at or before the message id
Prefix(events, upto) ==
  LET UpTo(e) == LocaleCompare(e.messageId, upto) <= 0 IN SelectSeq(events, UpTo)

\* C15: forkEpicState(parent, child, M) leaves the parent's log as it was and
\* makes the child's log the parent's events at or before M; an event recorded
\* on one channel changes no other channel's log
C15_ForkDivergence ==
  [][\A f \in Factories, p \in Plugins, c \in Channels :
       /\ \A parent \in Channels \ {c} :
            (/\ last'.op = "forkEpicState" /\ last'.f = f /\ last'.p = p
             /\ last'.channelId = c /\ last'.other = parent)
              => /\ Log(f, p, parent)' = Log(f, p, parent)
                 /\ epicFile'[p][parent] = epicFile[p][parent]
                 /\ Log(f, p, c)' = Prefix(Log(f, p, parent), last'.messageId)
       /\ (/\ last'.f = f /\ last'.p = p /\ last'.channelId = c
           /\ \/ last'.op = "recordEpicEvent"
              \/ last'.op = "setState" /\ last'.scope = "epic")
            => \A o \in Channels \ {c} :
                 /\ Log(f, p, o)' = Log(f, p, o)
                 /\ epicFile'[p][o] = epicFile[p][o]]_vars


-----------------------------------------------------------------------------
(* Properties of a channel that has been written *)

\* the (state, metadata) stored for a channel, as the manager of (f, p) holds
\* it: the cache entry, else the file
OwnStored(f, p, channelId) ==
  IF channelCache[f][p][channelId] # None THEN CacheSnap(f, p, channelId)
  ELSE channelFile[p][channelId]

\* C16: once setChannelState on a channel has completed, the channel stays
\* stored, through writes to other channels and new factories, and every read
\* of it returns its own stored state and metadata whatever inheritance info
\* is passed; writes to other channels leave its stored state as it was
C16_OneShot ==
  /\ [](last.op = "getChannelState" /\ OwnStored(last.f, last.p, last.channelId) # None
          => /\ Some([state |-> last.snap, metadata |-> last.metadata])
                  = OwnStored(last.f, last.p, last.channelId)
             /\ last.other = Undefined)
  /\ [][\A f \in Factories, p \in Plugins, c \in Channels :
          /\ OwnStored(f, p, c) # None => OwnStored(f, p, c)' # None
          /\ (last'.op = "setChannelState" /\ last'.f = f /\ last'.p = p
                /\ last'.channelId = c)
               => /\ OwnStored(f, p, c)' # None
                  /\ OwnStored(f, p, c)'[1].state = last'.snap
                  /\ \A o \in Channels \ {c} :
                       OwnStored(f, p, o) # None => OwnStored(f, p, o)' = OwnStored(f, p, o)]_vars

\* the thread, which stores 0, is read with both inheritance sources named
\* while its parent and its history origin store 1
C16_Witness ==
  /\ last.op = "getChannelState" /\ last.channelId = "thread"
  /\ last.inh.parentChannelId = "parent" /\ last.inh.historyOriginChannelId = "origin"
  /\ last.snap = JNum(0)
  /\ OwnStored(last.f, last.p, "parent") # None
  /\ OwnStored(last.f, last.p, "parent")[1].state = JNum(1)
  /\ OwnStored(last.f, last.p, "origin") # None
  /\ OwnStored(last.f, last.p, "origin")[1].state = JNum(1)


-----------------------------------------------------------------------------
(* Properties of writes that overlap *)

\* what a factory that has cached nothing reads as the channel's state
FreshRead(p, channelId) ==
  LET content == channelFile[p][channelId]
  IN IF content = None THEN JNull
     ELSE IF IsTorn(content[1]) THEN <<"throws", 0>>
     ELSE content[1].state

\* C17: once the setState('channel', .) calls of the activations have
\* completed, the file holds the state and metadata of the write that reached
\* the file last, and a new factory reads that state
C17_LastWriteWins ==
  ((\A f \in Factories : calls[f] = None) /\ last.written # None)
    => /\ channelFile[last.p][last.channelId] = last.written
       /\ FreshRead(last.p, last.channelId) = last.written[1].state


-----------------------------------------------------------------------------
(* Properties of a context without a reducer *)

\* C18: without a reducer, getState('epic') returns what getState('channel')
\* returns and leaves the cached and stored event logs untouched, and
\* setState('epic', d) leaves one event (currentMessageId, d) in the channel's
\* log and the channel states as they were
C18_NoReducer ==
  [][\A f \in Factories, p \in Plugins, c \in Channels :
       (/\ ctx # None /\ ctx' = ctx /\ ~ctx[1].epicReducer
        /\ last'.f = f /\ last'.p = p /\ last'.channelId = c /\ last'.scope = "epic")
         => /\ last'.op = "getState"
                 => /\ last'.snap = ReadBack("channel")
                    /\ last'.estate = None
                    /\ epicEventsCache' = epicEventsCache
                    /\ epicFile' = epicFile
            /\ last'.op = "setState"
                 => /\ \E i \in 1..Len(Log(f, p, c)') :
                         /\ EventsOf(Log(f, p, c)', last'.messageId) = {i}
                         /\ Log(f, p, c)'[i].delta = last'.snap[2]
                    /\ last'.messageId = ctx[1].currentMessageId
                    /\ channelFile' = channelFile
                    /\ \A o \in Channels : CacheSnap(f, p, o)' = CacheSnap(f, p, o)
                    /\ ReadBack("channel")' = ReadBack("channel")]_vars

\* the thread's context reads epic scope and gets the 1 it inherits from the
\* parent, while the thread's log holds an event
C18_Witness ==
  /\ last.op = "getState" /\ last.scope = "epic"
  /\ ctx # None /\ ~ctx[1].epicReducer
  /\ last.channelId = "thread" /\ last.other = "parent"
  /\ last.snap = JNum(1)
  /\ epicFile[last.p]["thread"] # None
  /\ epicEventsCache[last.f][last.p]["thread"] = None


\* C19: getStateAtMessage(id) without a reducer returns null and changes
\* nothing that is stored or cached; with a reducer it returns the replay of
\* the channel's log up to and including id over the events whose messages
\* are in the context's contextMessageIds
C19_StateAtMessage ==
  /\ [](last.op = "getStateAtMessage" =>
          last.estate =
            IF ctx[1].epicReducer
              THEN FilteredFold(Log(last.f, last.p, last.channelId), last.messageId,
                                Some(ctx[1].contextMessageIds))
              ELSE None)
  /\ [][(last'.op = "getStateAtMessage" /\ ctx # None /\ ~ctx[1].epicReducer)
          => UNCHANGED <<diskVars, cacheVars, heap>>]_vars

\* the state at the second of two events, the first one's message not being in
\* the context: the second delta alone
C19_Witness ==
  /\ last.op = "getStateAtMessage" /\ ctx[1].epicReducer
  /\ LET events == Log(last.f, last.p, last.channelId) IN
     /\ Len(events) = 2
     /\ last.messageId = events[2].messageId
     /\ events[1].messageId \notin ctx[1].contextMessageIds
     /\ events[1].delta # events[2].delta
     /\ last.estate = Some(<<events[2].delta>>)


\* the metadata stored for a channel, none stored being {lastModifiedMessageId: null}
StoredMetadata(f, p, channelId) ==
  IF OwnStored(f, p, channelId) = None THEN EmptyMetadata
  ELSE OwnStored(f, p, channelId)[1].metadata

\* C20: after setState('channel', v) the channel's stored metadata, in the
\* cache and in the file, is the metadata it had stored with
\* lastModifiedMessageId set to the context's currentMessageId
C20_WriteStampsMessage ==
  [][\A f \in Factories, p \in Plugins, c \in Channels, cur \in MsgIds :
       (/\ last'.op = "setState" /\ last'.scope = "channel"
        /\ last'.f = f /\ last'.p = p /\ last'.channelId = c
        /\ ctx # None /\ ctx' = ctx /\ ctx[1].currentMessageId = cur)
         => /\ channelFile'[p][c] # None
            /\ channelFile'[p][c][1].state = last'.snap
            /\ channelFile'[p][c][1].metadata =
                 [StoredMetadata(f, p, c) EXCEPT !.lastModifiedMessageId = cur]
            /\ CacheSnap(f, p, c)' = channelFile'[p][c]]_vars

\* the thread's context of message 9 writes over the state it inherited from
\* the parent, stored at message 10: the thread's metadata names message 9 only
C20_Witness ==
  /\ last.op = "setState" /\ last.scope = "channel" /\ last.before = "inherited"
  /\ last.channelId = "thread" /\ last.messageId = <<9>>
  /\ StoredMetadata(last.f, last.p, "parent").lastModifiedMessageId = <<1, 0>>
  /\ StoredMetadata(last.f, last.p, "thread")
       = [EmptyMetadata EXCEPT !.lastModifiedMessageId = <<9>>]
  /\ channelFile[last.p]["thread"][1].metadata = StoredMetadata(last.f, last.p, "thread")


-----------------------------------------------------------------------------
(* Properties of a refreshed factory *)

\* what a context made by factory f now would capture of the snapshot
Captured(f) ==
  [f |-> f, contextMessageIds |-> messageIdSet[f], messageIds |-> messageIds[f]]

\* C21: after updateMessageIds(L) the factory's list is L, its set the ids of
\* L and its positions the indices in L, and a factory refreshed with L gives
\* the same depths, and the same snapshot to a new context, as a factory
\* constructed with L
C21_RefreshIsFresh ==
  /\ [][\A f \in Factories, L \in ShortLists :
          (last'.op = "updateMessageIds" /\ last'.f = f /\ last'.ids = L)
            => /\ messageIds'[f] = L
               /\ messageIdSet'[f] = SetOf(L)
               /\ \A id \in MsgIds :
                    messagePositions'[f][id] =
                      IF id \in SetOf(L) THEN IndexOf(L, id) ELSE 0 - 1]_vars
  /\ [](messageIds["f1"] = messageIds["f2"]
          => /\ messageIdSet["f1"] = messageIdSet["f2"]
             /\ messagePositions["f1"] = messagePositions["f2"]
             /\ \A id \in MsgIds \cup {NullId} :
                  /\ \A t \in Depths :
                       calculateCurrentDepth("f1", id, t) = calculateCurrentDepth("f2", id, t)
                  /\ messagesSinceId(Captured("f1"), id) = messagesSinceId(Captured("f2"), id))

\* a list of two ids was replaced by a list of one other id, which is also the
\* list the other factory was constructed with
C21_Witness ==
  /\ last.op = "updateMessageIds" /\ last.f = "f1" /\ last.len = 2
  /\ Len(last.ids) = 1 /\ last.messageId \notin SetOf(last.ids)
  /\ messageIds["f2"] = last.ids
  /\ messagePositions["f1"][last.messageId] = 0 - 1

-----------------------------------------------------------------------------
(* Properties of the paths *)

\* the names the identifiers are made of
PlainNames ==
  UNION {{id[i] : i \in 1..Len(id)} : id \in RawPluginIds \cup RawChannelIds}
    \ {"", ".", ".."}

\* {cacheDir}/plugins/{pluginId}/global.json, .../channel/{channelId}.json and
\* .../epic/{channelId}.json for identifiers without separators
StorePaths ==
  {[dir |-> <<"plugins", p>>, name |-> "global"] : p \in PlainNames}
  \cup {[dir |-> <<"plugins", p, "channel">>, name |-> c] : p \in PlainNames, c \in PlainNames}
  \cup {[dir |-> <<"plugins", p, "epic">>, name |-> c] : p \in PlainNames, c \in PlainNames}

\* C22: a state operation whose pluginId or channelId has a path separator
\* fails with InvalidIdentifier and reads or writes no file, and every file an
\* operation reads or writes is at one of the three paths of the store
C22_SeparatorsRejected ==
  last.pid # <<>> =>
    /\ (HasSeparator(last.pid) \/ HasSeparator(last.cid))
         => (last.outcome = "InvalidIdentifier" /\ last.touched = {})
    /\ last.touched \subseteq StorePaths

-----------------------------------------------------------------------------
(* Properties of failing reads and writes *)

\* C23: a getState('channel') or getState('epic') of a context during which
\* the read of a channel or event file fails, with an I/O error other than
\* file-absent or on corrupt data, returns null to the plugin
C23_ReadFailureIsNull ==
  (last.op = "getState" /\ last.scope \in {"channel", "epic"} /\ last.err \in ReadErrors)
    => (last.outcome = "returned" /\ last.val = JNull /\ last.estate = None)

\* the file of the scope holds the value: as the global state, as the
\* channel's state, or as the delta of the event of the message
InFile(scope, p, channelId, messageId, value) ==
  IF scope = "global" THEN globalFile[p] = Some(value)
  ELSE IF scope = "channel"
    THEN channelFile[p][channelId] # None /\ channelFile[p][channelId][1].state = value
  ELSE /\ epicFile[p][channelId] # None
       /\ \E i \in 1..Len(epicFile[p][channelId][1]) :
            /\ epicFile[p][channelId][1][i].messageId = messageId
            /\ JNum(epicFile[p][channelId][1][i].delta) = value

\* C24: a setState of any scope whose file write fails throws to its caller,
\* and a setState that returns has left the value in the file of its scope
C24_WritesNeverDrop ==
  last.op = "setState" =>
    /\ last.err \in WriteErrors => last.outcome = "thrown"
    /\ last.outcome = "returned"
         => InFile(last.scope, last.p, last.channelId, last.messageId, last.snap)

\* a channel write of 1 over a stored 0 failed: the caller got the error, and
\* file and cache still hold 0
C24_Witness ==
  /\ last.op = "setState" /\ last.scope = "channel" /\ last.err = "ENOSPC"
  /\ last.outcome = "thrown" /\ last.snap = JNum(1)
  /\ channelFile[last.p][last.channelId] # None
  /\ channelFile[last.p][last.channelId][1].state = JNum(0)
  /\ ReadBack("channel") = JNum(0)

-----------------------------------------------------------------------------
(* Properties of the pair of state and metadata *)

\* C25: whenever getChannelState returns for a channel with own state, also
\* while writes are under way, its state and its metadata are those of one
\* and the same write
C25_StateWithItsMetadata ==
  (last.op = "getChannelState" /\ last.outcome = "returned" /\ last.before = "own")
    => \E w \in PairedWrites :
         /\ last.snap = w.state
         /\ last.metadata = [EmptyMetadata EXCEPT !.lastModifiedMessageId = w.messageId]

\* a read returns the pair of one write while the other factory's write of
\* the other pair has opened the file and not yet written it
C25_Witness ==
  /\ last.op = "getChannelState" /\ last.outcome = "returned" /\ last.before = "own"
  /\ last.snap = JNum(0)
  /\ \E g \in Factories \ {last.f} :
       /\ calls[g] # None /\ calls[g][1].pc = "write" /\ calls[g][1].state = JNum(1)
  /\ IsTorn(channelFile[last.p][last.channelId][1])

-----------------------------------------------------------------------------
(* Properties of replay as a function *)

ReplayOps == {"getEpicState", "getStateAtMessage"}

\* C26: getEpicState and getStateAtMessage leave the event files as they
\* were and every channel's log, as cached, with the events, order and deltas
\* it had, and a replay repeated with the same bound and live set returns the
\* same state
C26_ReplayIsPure ==
  [][\A f \in Factories, p \in Plugins :
       last'.op \in ReplayOps =>
         /\ epicFile' = epicFile
         /\ \A c \in Channels :
              /\ Log(f, p, c)' = Log(f, p, c)
              /\ epicEventsCache[f][p][c] # None
                   => epicEventsCache'[f][p][c] = epicEventsCache[f][p][c]
              /\ epicEventsCache'[f][p][c] # None
                   => epicEventsCache'[f][p][c] = Some(Log(f, p, c))
         /\ (/\ last.op = last'.op /\ last.f = last'.f /\ last.p = last'.p
             /\ last.channelId = last'.channelId /\ last.messageId = last'.messageId
             /\ last.live = last'.live /\ ctx' = ctx)
              => last'.estate = last.estate]_vars

\* a replay, up to the first of two events, that read the log from its file
C26_Witness ==
  /\ last.op = "getEpicState" /\ last.before = "file"
  /\ LET events == Log(last.f, last.p, last.channelId) IN
     /\ Len(events) = 2
     /\ last.messageId = events[1].messageId
     /\ last.live = None
     /\ last.estate = Some(<<events[1].delta>>)
     /\ epicEventsCache[last.f][last.p][last.channelId] = Some(events)
     /\ epicFile[last.p][last.channelId] = Some(events)

-----------------------------------------------------------------------------
(* Properties of the scopes that are not rolled back *)

\* what the store holds for a scope: the value the manager of (f, p) returns
\* for the global state, or for a channel with its inheritance info
StoredValue(scope, f, p, channelId, inh) ==
  IF scope = "global"
    THEN LET r == getGlobalState(Mem, f, p) IN Stringify(r.m.heap, r.ret)
    ELSE LET r == getChannelState(Mem, f, p, channelId, inh)
         IN Stringify(r.m.heap, r.ret.state)

\* C27: getState('global') and getState('channel') return what the store
\* holds, whatever the message ids of the context are; updateMessageIds
\* changes nothing that is stored or cached, and a new factory with other
\* message ids reads for these scopes what the factory before it read
C27_NoRollback ==
  /\ []((last.op = "getState" /\ last.scope \in {"global", "channel"})
          => last.snap = StoredValue(last.scope, last.f, last.p, last.channelId, last.inh))
  /\ [][last'.op = "updateMessageIds" => UNCHANGED <<diskVars, cacheVars, heap>>]_vars
  /\ [][\A f \in Factories :
          (last'.op = "new" /\ last'.f = f)
            => \A p \in Plugins :
                 /\ StoredValue("global", f, p, "", NoInheritance)'
                      = StoredValue("global", f, p, "", NoInheritance)
                 /\ \A c \in Channels, inh \in Inheritances :
                      StoredValue("channel", f, p, c, inh)'
                        = StoredValue("channel", f, p, c, inh)]_vars

\* the channel state written at message 10 is read as 1 by a context whose
\* message ids no longer hold message 10, while its epic state is rolled back
C27_Witness ==
  /\ last.op = "getState" /\ last.scope = "channel" /\ last.snap = JNum(1)
  /\ ctx # None /\ <<1, 0>> \notin ctx[1].contextMessageIds
  /\ ctx[1].contextMessageIds # {}
  /\ StoredMetadata(last.f, last.p, last.channelId).lastModifiedMessageId = <<1, 0>>
  /\ Log(last.f, last.p, last.channelId) # <<>>
  /\ getEpicState(Mem, last.f, last.p, last.channelId, NullId,
                  Some(ctx[1].contextMessageIds)).ret = None

-----------------------------------------------------------------------------
(* Properties of the placement *)

Originals(output) == SelectSeq(output, LAMBDA entry : entry.kind = "msg")

SubmittedKeys(subs) == {<<subs[i].pluginId, subs[i].id>> : i \in 1..Len(subs)}

\* the submission that is left for a key after deduplication: the last one
LastSubmitted(subs, key) ==
  subs[CHOOSE i \in 1..Len(subs) :
         /\ <<subs[i].pluginId, subs[i].id>> = key
         /\ \A j \in (i + 1)..Len(subs) : <<subs[j].pluginId, subs[j].id>> # key]

PositionsOf(output, key) ==
  {j \in 1..Len(output) : /\ output[j].kind = "inj"
                          /\ <<output[j].pluginId, output[j].id>> = key}

OriginalsBefore(output, j) ==
  Cardinality({i \in 1..(j - 1) : output[i].kind = "msg"})

\* C28: for a transcript of n messages and the k injections left after
\* deduplication, the output has n + k entries, the original messages keep
\* their order, and each injection stands once, with min(max(n - depth, 0), n)
\* original messages before it for anchor latest and min(depth, n) for anchor
\* earliest, so that no injection is dropped when its depth exceeds n
C28_PlacementIndex ==
  placement.pc = "placed" =>
    LET n == placement.n
        subs == placement.submitted
        output == placement.output
    IN /\ Len(output) = n + Cardinality(SubmittedKeys(subs))
       /\ Originals(output) = [i \in 1..n |-> Message(i)]
       /\ \A key \in SubmittedKeys(subs) :
            LET inj == LastSubmitted(subs, key)
                fromEnd == IF n - inj.depth > 0 THEN n - inj.depth ELSE 0
            IN /\ Cardinality(PositionsOf(output, key)) = 1
               /\ \A j \in PositionsOf(output, key) :
                    OriginalsBefore(output, j) =
                      IF inj.anchor = "latest" THEN Min(fromEnd, n)
                      ELSE Min(inj.depth, n)

\* scenario S6 on the transcript [a, b, c]: depth 99 and depth 2 from the
\* start give [a, b, R, c] and [a, b, c, R], here in one build
C28_Witness ==
  /\ placement.pc = "placed" /\ placement.n = 3
  /\ placement.submitted =
       <<[pluginId |-> "notes", id |-> "x", depth |-> 99, anchor |-> "earliest",
          priority |-> 0],
         [pluginId |-> "notes", id |-> "y", depth |-> 2, anchor |-> "earliest",
          priority |-> 0]>>
  /\ placement.output =
       <<Message(1), Message(2),
         [kind |-> "inj", pluginId |-> "notes", id |-> "y", n |-> 0],
         Message(3),
         [kind |-> "inj", pluginId |-> "notes", id |-> "x", n |-> 0]>>

\* the order the specification gives to injections of one index: priority
\* descending, then pluginId ascending, then id ascending
ComesFirst(a, b) ==
  \/ a.priority > b.priority
  \/ a.priority = b.priority /\ Rank(PluginSeq, a.pluginId) < Rank(PluginSeq, b.pluginId)
  \/ /\ a.priority = b.priority /\ a.pluginId = b.pluginId
     /\ Rank(InjectionIds, a.id) < Rank(InjectionIds, b.id)

\* C29: two injections of one build that share an insertion index stand in
\* the final transcript in the order priority descending, then pluginId
\* ascending, then id ascending (S2: X with priority 10 before Y with
\* priority 0)
C29_ColocatedOrder ==
  placement.pc = "placed" =>
    LET subs == placement.submitted
        output == placement.output
    IN \A ka, kb \in SubmittedKeys(subs) :
         \A ja \in PositionsOf(output, ka), jb \in PositionsOf(output, kb) :
           ( /\ OriginalsBefore(output, ja) = OriginalsBefore(output, jb)
             /\ ComesFirst(LastSubmitted(subs, ka), LastSubmitted(subs, kb)) )
           => ja < jb

-----------------------------------------------------------------------------
(* Properties of the tool dispatcher *)

\* the tool a call names, when the plugin and the tool exist
Resolves(call) ==
  /\ call.pluginName \in DOMAIN Registry
  /\ call.toolName \in DOMAIN Registry[call.pluginName].tools

LacksRequired(call) ==
  \E name \in Registry[call.pluginName].tools[call.toolName].inputSchema.required :
    call.rawInput[name] = "absent"

WronglyTyped(call) ==
  \E name \in PropertyNames :
    /\ call.rawInput[name] # "absent"
    /\ call.rawInput[name] # Registry[call.pluginName].tools[call.toolName].inputSchema.properties[name]

\* C30: a tool call whose input lacks a required property of the tool's
\* inputSchema, or holds a value of the wrong type, ends with InvalidInput,
\* and neither the tool's handler nor the plugin's onToolExecution hook is
\* invoked for it
C30_SchemaEnforced ==
  (dispatch.pc # "idle" /\ Resolves(dispatch)
     /\ (LacksRequired(dispatch) \/ WronglyTyped(dispatch)))
  => /\ dispatch.pc = "done"
     /\ dispatch.outcome = "InvalidInput"
     /\ dispatch.handler = 0
     /\ dispatch.hook = 0

\* add_note of a plugin with the hook, called with its required text and a
\* count that is a string
C30_Witness ==
  /\ dispatch.pc = "done" /\ dispatch.outcome = "InvalidInput"
  /\ dispatch.pluginName = "notes" /\ dispatch.toolName = "add_note"
  /\ dispatch.rawInput = [text |-> "string", count |-> "string"]
  /\ dispatch.handler = 0 /\ dispatch.hook = 0

\* C31: onToolExecution is invoked only after the tool's handler has returned
\* its result, and the caller gets the handler's result whether the hook
\* completes or throws
C31_HookAfterHandler ==
  /\ [](dispatch.hook > 0 => (dispatch.handler > 0 /\ dispatch.result \in Results))
  /\ [][dispatch'.hook > dispatch.hook => last'.op = "handlerReturns"]_vars
  /\ [][last'.op = "hookEnds"
          => /\ dispatch'.pc = "done"
             /\ dispatch'.outcome = dispatch.result
             /\ dispatch'.result = dispatch.result]_vars
  /\ [](dispatch.pc = "done" /\ dispatch.result \in Results
          => dispatch.outcome = dispatch.result)

\* the hook of the plugin notes has thrown after add_note returned
C31_Witness ==
  /\ dispatch.pc = "done" /\ dispatch.hook = 1 /\ dispatch.handler = 1
  /\ dispatch.pluginName = "notes"
  /\ dispatch.outcome = "ok" /\ dispatch.result = "ok"
  /\ last.op = "hookEnds" /\ last.err = "logged"

-----------------------------------------------------------------------------
(* Properties of the inheritance hop *)

\* C32: getChannelState looks at the channel itself and then only at the
\* history origin and the parent that the call names, at most three lookups
\* in all, and what it returns as inherited is the own stored state of one of
\* these two, for every inheritance info, one that names the channel itself
\* included
C32_OneHop ==
  last.op = "getChannelState" =>
    LET named == {last.inh.historyOriginChannelId, last.inh.parentChannelId}
                   \ {Undefined}
    IN /\ Len(last.lookups) \in 1..3
       /\ last.lookups[1] = last.channelId
       /\ \A i \in 2..Len(last.lookups) : last.lookups[i] \in named
       /\ \A i, j \in 2..Len(last.lookups) :
            i < j => /\ last.lookups[i] = last.inh.historyOriginChannelId
                     /\ last.lookups[j] = last.inh.parentChannelId
       /\ last.other # Undefined
            => /\ last.other \in named
               /\ Stored(last.f, last.p, last.other)
               /\ last.snap = OwnSnap(last.f, last.p, last.other).state
       /\ (last.other = Undefined /\ ~Stored(last.f, last.p, last.channelId))
            => last.val = JNull

\* the thread is read with itself as history origin and as parent while the
\* channel origin, which the call does not name, has a stored state
C32_Witness ==
  /\ last.op = "getChannelState" /\ last.channelId = "thread"
  /\ last.inh = [parentChannelId |-> "thread", historyOriginChannelId |-> "thread"]
  /\ last.lookups = <<"thread", "thread", "thread">>
  /\ Stored("f1", "notes", "origin")
  /\ Truthy(getOwnChannelState(Mem, "f1", "notes", "origin").ret.state)
  /\ last.val = JNull

-----------------------------------------------------------------------------
(* Properties of overlapping records *)

\* no call of recordEpicEvent is under way
RecordsIdle == \A k \in RecordCalls : records.calls[k] = None

\* the log of the channel as the manager sees it has an event for every
\* message id that a completed call recorded
NothingLost(f, p, channelId) ==
  \A id \in records.recorded : EventsOf(Log(f, p, channelId), id) # {}

\* C33 as stated: after any set of recordEpicEvent calls on one channel of one
\* manager has completed, one after another or overlapping at their awaits,
\* the log holds an event for every message id recorded
C33_NoEventLost == RecordsIdle => NothingLost("f1", "notes", "parent")

\* C33, for calls that ran one after another: the log holds an event for
\* every message id recorded, in the file as well as in the manager's view
C33_NoEventLostInSequence ==
  (RecordsIdle /\ ~records.overlapped)
    => /\ NothingLost("f1", "notes", "parent")
       /\ records.recorded # {}
            => /\ epicFile["notes"]["parent"] # None
               /\ \A id \in records.recorded :
                    EventsOf(epicFile["notes"]["parent"][1], id) # {}

\* two calls with different message ids have completed one after the other
C33_Witness ==
  /\ RecordsIdle /\ ~records.overlapped
  /\ Cardinality(records.recorded) >= 2
  /\ Len(Log("f1", "notes", "parent")) >= 2

-----------------------------------------------------------------------------
(* Properties of the cache against the files *)

\* a call has started fs.writeFile and has not yet set the cache
WriteInProgress ==
  \E k \in RecordCalls :
    records.calls[k] # None /\ records.calls[k][1].pc \in {"writing", "written"}

\* what the manager of factory f holds in its cache is what the files hold:
\* the global blob, each channel's state and metadata, each channel's log
CacheIsFile(f) ==
  \A p \in Plugins :
    /\ globalCache[f][p] # JNull
         => globalFile[p] = Some(Stringify(heap, globalCache[f][p]))
    /\ \A c \in Channels :
         /\ channelCache[f][p][c] # None => channelFile[p][c] = CacheSnap(f, p, c)
         /\ epicEventsCache[f][p][c] # None => epicFile[p][c] = epicEventsCache[f][p][c]

-----------------------------------------------------------------------------
(* Properties of writes that fail *)

\* C35: a failed write leaves the state unchanged: when the file write of
\* setChannelState fails, the manager's cache keeps the value it had before
\* the write was attempted, and a later read returns the value the channel had
\* before the call and not the value that failed to be written
C35_FailedWriteKeepsState ==
  last.op = "setChannelStateFails" =>
    /\ last.before.outcome = "returned"
    /\ ChannelView(last.f, last.p, last.channelId) = last.before

-----------------------------------------------------------------------------
(* Properties of values changed in place *)

\* the value of the context's key that was last written successfully: the
\* parse of the file, null when there is none
LastWritten(scope) ==
  LET c == ctx[1] IN
  IF scope = "global"
    THEN IF globalFile[c.pluginId] = None THEN JNull ELSE globalFile[c.pluginId][1]
    ELSE IF channelFile[c.pluginId][c.channelId] = None THEN JNull
         ELSE channelFile[c.pluginId][c.channelId][1].state

\* C36: stored state changes only through a set operation: whatever the plugin
\* changed in place in a value it got from getState, with no setState or with a
\* setState that failed, getState (global or channel) returns the value last
\* written successfully
C36_OnlySetChanges ==
  [][((last.op = "getState" /\ last'.op = "mutate")
        \/ (last.op = "mutate" /\ last'.op = "setState" /\ last'.outcome = "thrown"))
       => \A scope \in {"global", "channel"} :
            ReadBack(scope)' = LastWritten(scope)']_vars

-----------------------------------------------------------------------------
(* Properties of inherited reads *)

\* the channel of the last read has a cache entry or a file
ReadChannelStored == Stored(last.f, last.p, last.channelId)

\* the state that the inheritance info of the last read resolves to now
InheritedNow == Resolution(last.f, last.p, last.inh).state

\* C37: an inherited read is not remembered: a getChannelState of a channel
\* without stored state of its own returns the state that the channel it
\* inherits from has at the time of the read, whatever was read before and
\* written since, and leaves the channel without cache entry and without file
C37_InheritedNotRemembered ==
  [][(last'.op = "getChannelState" /\ ~Stored(last'.f, last'.p, last'.channelId))
       => (last'.snap = InheritedNow' /\ ~ReadChannelStored')]_vars

\* the history origin or the parent that the last read names has stored state
NamedChannelStored ==
  \/ /\ last.inh.historyOriginChannelId # Undefined
     /\ Stored(last.f, last.p, last.inh.historyOriginChannelId)
  \/ /\ last.inh.parentChannelId # Undefined
     /\ Stored(last.f, last.p, last.inh.parentChannelId)

\* C38: inheritance applies to every stored value: when the history origin or
\* the parent has stored state, a channel without state of its own receives
\* that state, the falsy values 0, false and "" included
C38_FalsyInherited ==
  (last.op = "getChannelState" /\ ~ReadChannelStored /\ NamedChannelStored)
    => last.snap = InheritedNow

-----------------------------------------------------------------------------
(* Properties of the keys (plugin, scope, channel) *)

\* the stored data of plugin p in one scope: the files, and each manager's cache
ScopeData(p, scope) ==
  IF scope = "global"
    THEN [file |-> <<globalFile[p]>>, cache |-> [f \in Factories |-> <<globalCache[f][p]>>]]
  ELSE IF scope = "channel"
    THEN [file |-> channelFile[p], cache |-> [f \in Factories |-> channelCache[f][p]]]
  ELSE [file |-> epicFile[p], cache |-> [f \in Factories |-> epicEventsCache[f][p]]]

\* the stored channel state and event log of channel c of plugin p
ChannelData(p, c) ==
  [file |-> <<channelFile[p][c], epicFile[p][c]>>,
   cache |-> [f \in Factories |-> <<channelCache[f][p][c], epicEventsCache[f][p][c]>>]]

\* what getState('global') of the plugin of the last operation returns to a
\* context made by factory g, by value
GlobalSeenBy(g) ==
  LET r == getGlobalState(Mem, g, last.p) IN Stringify(r.m.heap, r.ret)

\* C39: isolation of keys: a setState for (plugin p, scope s, channel c)
\* leaves unchanged the stored data of every other plugin, of the other two
\* scopes of p, and of every channel other than c, and a global write is what
\* a context of any channel of p reads
C39_KeysIsolated ==
  [][\A p \in Plugins, scope \in {"global", "channel", "epic"}, c \in Channels :
       (last'.op = "setState" /\ last'.p = p /\ last'.scope = scope
          /\ last'.channelId = c)
         => /\ \A q \in Plugins \ {p}, s \in {"global", "channel", "epic"} :
                 ScopeData(q, s)' = ScopeData(q, s)
            /\ \A s \in {"global", "channel", "epic"} \ {scope} :
                 ScopeData(p, s)' = ScopeData(p, s)
            /\ \A d \in Channels \ {c} : ChannelData(p, d)' = ChannelData(p, d)
            /\ scope = "global" => \A g \in Factories : GlobalSeenBy(g)' = last'.snap]_vars

-----------------------------------------------------------------------------
(* Properties of activation logging *)

\* C40: when a withActivationLogging call finishes, with its function resolved
\* or thrown, the stream this call opened is ended, the stream of every call
\* still running is open, and activationLoggers has no entry for the id of
\* the finished call; the calls may overlap and may have the same id
C40_LogCleanup ==
  [][\A k \in LogCalls :
       (last'.op = "withActivationLogging" /\ last'.other = k)
         => /\ logging'.streams[k] = "ended"
            /\ \A j \in LogCalls \ {k} :
                 logging'.calls[j] # None => logging'.streams[j] = "open"
            /\ logging'.activationLoggers[<<last'.channelId, last'.messageId>>] = None]_vars

====
